---- MODULE Spec2Model ----
(***************************************************************************)
(* A model of scripts/generate-blog-translations.py: the `generate` run    *)
(* (translation cache, retries, batched text-node translation, per-article *)
(* output), the slug registry (build_slug_map) and the alternate-link      *)
(* rewriter (update_hreflang_links).                                       *)
(*                                                                         *)
(* Strings are sequences of tokens.  A token is a record [c, n]: c is the  *)
(* character (or a run of characters, or a piece of markup), n is 0 for    *)
(* source text, the variant of the translation for translated text, and    *)
(* the marker index for the opening tag of a marker.                       *)
(***************************************************************************)
EXTENDS Integers, Sequences, FiniteSets, TLC

\* ------------------------------------------------------------------ texts

Tok(c) == [c |-> c, n |-> 0]

\* What python's \s and str.strip() treat as whitespace (the two the model uses).
IsSpace(t) == t.c \in {" ", "\n"}

\* len() of one token: "K", "L", "J" and "H" stand for runs of 1225, 1226, 2436
\* and 2600 non-blank characters, "&amp;" is the five characters html.escape
\* writes for "&", an opening tag is <span data-i="N"> and a closing one </span>.
Digits(i) == IF i < 10 THEN 1 ELSE IF i < 100 THEN 2 ELSE 3

CharLen(t) ==
  CASE t.c = "K" -> 1225
    [] t.c = "L" -> 1226
    [] t.c = "J" -> 2436
    [] t.c = "H" -> 2600
    [] t.c = "&amp;" -> 5
    [] t.c = "<span>" -> 16 + Digits(t.n)
    [] t.c = "</span>" -> 7
    [] OTHER -> 1

RECURSIVE StrLen(_)
StrLen(s) == IF s = <<>> THEN 0 ELSE CharLen(Head(s)) + StrLen(Tail(s))

\* not text.strip()
IsBlank(s) == \A i \in DOMAIN s : IsSpace(s[i])

\* re.match(r'^(\s*)(.*?)(\s*)$', text, re.S).groups(): the greedy leading run
\* of whitespace, the lazy middle, the trailing run of whitespace.
SplitText(s) ==
  LET lead == CHOOSE k \in 0..Len(s) :
                /\ \A i \in 1..k : IsSpace(s[i])
                /\ (k < Len(s) => ~IsSpace(s[k + 1]))
      rest == SubSeq(s, lead + 1, Len(s))
      keep == CHOOSE k \in 0..Len(rest) :
                /\ \A i \in (k + 1)..Len(rest) : IsSpace(rest[i])
                /\ (k > 0 => ~IsSpace(rest[k]))
  IN  [prefix |-> SubSeq(s, 1, lead),
       core   |-> SubSeq(rest, 1, keep),
       suffix |-> SubSeq(rest, keep + 1, Len(rest))]

\* html.escape(core): "&" becomes the entity; the parser of the response
\* (BeautifulSoup get_text) turns the entity back.
Escape(s) == [i \in DOMAIN s |-> IF s[i].c = "&" THEN [s[i] EXCEPT !.c = "&amp;"] ELSE s[i]]

Unescape(s) == [i \in DOMAIN s |-> IF s[i].c = "&amp;" THEN [s[i] EXCEPT !.c = "&"] ELSE s[i]]

\* f'<span data-i="{i}">{html_lib.escape(core)}</span>'
Wrapper(i, core) == <<[c |-> "<span>", n |-> i]>> \o Escape(core) \o <<Tok("</span>")>>

\* ''.join(wrapper of every batch item)
RECURSIVE BatchHtml(_)
BatchHtml(items) ==
  IF items = <<>> THEN <<>>
  ELSE Wrapper(Head(items).i, Head(items).core) \o BatchHtml(Tail(items))

\* The markers of a piece of html, in order: [i, text] with text the raw
\* (still escaped) content between the opening tag and the next closing tag.
RECURSIVE ParseSpans(_)
ParseSpans(html) ==
  IF html = <<>> THEN <<>>
  ELSE IF Head(html).c = "<span>"
       THEN LET close == CHOOSE k \in 2..Len(html) :
                           /\ html[k].c = "</span>"
                           /\ \A j \in 2..(k - 1) : html[j].c # "</span>"
            IN  <<[i |-> Head(html).n, text |-> SubSeq(html, 2, close - 1)]>>
                  \o ParseSpans(SubSeq(html, close + 1, Len(html)))
       ELSE ParseSpans(Tail(html))

\* parsed.find('span', attrs={'data-i': str(i)}): the first marker with index i,
\* as <<its text>>, or <<>> when the response holds none; get_text() decodes
\* the entities.
FindSpan(html, i) ==
  LET spans == ParseSpans(html)
      hits  == {k \in DOMAIN spans : spans[k].i = i}
  IN  IF hits = {} THEN <<>>
      ELSE <<Unescape(spans[CHOOSE k \in hits : \A j \in hits : k <= j].text)>>

\* ------------------------------------------------------------ translator
\* translator.translate(text) is the external capability: it may fail, and
\* when it answers, the answer is one of these.  Words are translated (one of
\* several renderings, the service being context dependent), whitespace and
\* markup are kept, and a marker may be lost from the answer.
Variants == {1, 2}

IsMarkup(t) == t.c \in {"<span>", "</span>"}

TrText(s, v) == [i \in DOMAIN s |-> IF IsSpace(s[i]) \/ IsMarkup(s[i]) THEN s[i] ELSE [s[i] EXCEPT !.n = v]]

RECURSIVE SpanAnswers(_, _, _)
SpanAnswers(spans, vs, lossy) ==
  IF spans = <<>> THEN {<<>>}
  ELSE LET sp   == Head(spans)
           kept == {<<[c |-> "<span>", n |-> sp.i]>> \o TrText(sp.text, v) \o <<Tok("</span>")>> : v \in vs}
           one  == IF lossy THEN kept \cup {<<>>} ELSE kept
           rest == SpanAnswers(Tail(spans), vs, lossy)
       IN  {a \o r : a \in one, r \in rest}

HasMarkup(s) == \E i \in DOMAIN s : IsMarkup(s[i])

Answers(text, vs, lossy) ==
  IF HasMarkup(text) THEN SpanAnswers(ParseSpans(text), vs, lossy)
  ELSE {TrText(text, v) : v \in vs}

\* ------------------------------------------------------------ program data

MAX_BATCH_CHARS == 2500

\* for attempt in range(3)
MAX_ATTEMPTS == 3

LANGS == <<"en", "fr", "es", "de", "it">>

\* The bounds of the model: the text segments (head strings, text leaves,
\* attribute values) one run of the mixed corpus reads, and the text leaves
\* of the long region.
MaxSegments == 2

MaxLongLeaves == 11

\* The failures of the translator in one run.
MaxFailures == 3

T(c) == <<Tok(c)>>

\* The corpus the run reads.  "mixed": two articles whose segments are short
\* or long, blank or padded with whitespace, inside or outside excluded
\* elements, with a translator that fails, varies and loses markers.  "long":
\* one region of many short leaves and a long one, with a translator that
\* always answers.
Profiles == {"mixed", "long"}

\* A text leaf is a comment, or has its parent in SKIP_TEXT_PARENTS ("skip"),
\* or has a parent outside it but an ancestor in it ("nested", as the text of
\* <pre><b>..</b></pre>), or has no such ancestor ("text").
Leaf(text, kind) == [text |-> text, kind |-> kind]

LeafChoices(p) ==
  IF p = "long" THEN {Leaf(T("a"), "text"), Leaf(T("J"), "text")}
  ELSE {Leaf(T(" "), "text"), Leaf(T("a"), "text"), Leaf(T(" ") \o T("a") \o T("\n"), "text"),
        Leaf(T("L"), "text"), Leaf(T("&") \o T("K"), "text"), Leaf(T("H"), "text"),
        Leaf(T("a"), "skip"), Leaf(T("a"), "nested"), Leaf(T("a"), "comment")}

HeadTexts(p) == IF p = "long" THEN {} ELSE {T("a"), T(" ")}

AttrTexts(p) == IF p = "long" THEN {} ELSE {T("a")}

MayFail(p) == p = "mixed"

Budget(p) == IF p = "long" THEN MaxLongLeaves ELSE MaxSegments

\* A slug, an article key, a file name or a segment of a path is a sequence of
\* characters (some of them runs, as "index"); '' is <<>>.
IndexKey == <<"index">>

EnFiles(p) == IF p = "long" THEN <<IndexKey>> ELSE <<(<<"a">>), IndexKey>>

\* The targets translate_body finds in the documents of the corpus.
Targets(p) == <<"article">>

\* dict.get(key, {}).get(lang, default)
SlugGet(m, key, l, default) ==
  IF key \in DOMAIN m /\ l \in DOMAIN m[key] THEN m[key][l] ELSE default

\* cache[k] = v
CachePut(ch, k, v) == [t \in (DOMAIN ch) \cup {k} |-> IF t = k THEN v ELSE ch[t]]

\* ------------------------------------------------------------------ state

VARIABLES
  profile,      \* which corpus the run reads (fixed by Init)
  lang,         \* args.lang
  slug_map,     \* the slug map main() loaded
  en_files,     \* list_blog_files('en'), as article keys in sorted order
  run,          \* "running", "done" (main returned) or "error" (an exception left main)
  ai,           \* the position of the for loop of main in en_files
  pc,           \* where generate_article is: "begin", "head", "body", "scan", "attrs", "finish"
  target,       \* how many targets of translate_body are done
  cache,        \* the cache dict of the run: text -> translation
  leaves,       \* root.find_all(string=True) of the region, as read so far
  pending,      \* translate_text_nodes: the pending batch
  batch_len,    \* translate_text_nodes: batch_len
  idx,          \* translate_text_nodes: idx
  call,         \* the translate_text call waiting on the translator, if any
  calls,        \* history: every invocation of translator.translate
  flushes,      \* history: every batch request flush() built, with its answer
  nseg,         \* history: the segments read so far
  out,          \* the texts of the soup being built, as translated so far
  disk,         \* the files written under docs/<lang>/blog by this run
  missing_met,  \* history: a required slug or cross-reference was found absent
  docs,         \* build_slug_map: the English documents, key -> links and h1
  bs_pc,        \* build_slug_map: "seed" (first loop), "generate" (second loop), "done"
  bs_key,       \* build_slug_map: the position of the loop at hand in en_files
  bs_lang,      \* build_slug_map: the position of the inner loop in ['de', 'it']
  used_slugs,   \* build_slug_map: used_slugs
  soup,         \* update_hreflang_links: the document
  soup_in,      \* history: the document update_hreflang_links was given
  en_slug,      \* update_hreflang_links: en_slug, the key of the article
  h_pc,         \* update_hreflang_links: "call" before it ran, "done" after
  hrefs,        \* update_internal_links: the href of every <a> of the document
  hrefs_in,     \* history: the hrefs update_internal_links was given
  symbol_slugs, \* update_internal_links: symbol_slugs
  l_pc,         \* update_internal_links: "call" before it ran, "done" after
  corpus,       \* update_existing_hreflang: the blog files on disk, in the order of its loops
  corpus1,      \* history: the blog files as the first run left them
  u_pass,       \* update_existing_hreflang: 1 in the first run, 2 in the second, 3 after
  u_file,       \* update_existing_hreflang: the position of the loops in corpus
  i18n,         \* update_existing_hreflang: the table load_symbol_i18n returned
  xml,          \* update_sitemap: docs/sitemap.xml
  xml_in,       \* history: docs/sitemap.xml before the first run
  xml1,         \* history: docs/sitemap.xml after the first run
  s_runs,       \* update_sitemap: how many runs are done
  cmd,          \* main: args.cmd
  m_pc,         \* main: "load", "build", "save", "dispatch", "done"
  persisted,    \* data/blog-slugs.json: <<>> when missing, <<record>> otherwise
  persisted_in, \* history: data/blog-slugs.json before main ran
  saved1,       \* history: what the first save_slug_map wrote
  omap,         \* the slug map in memory as a dict: (key, slugs) pairs in insertion order
  omap_in       \* history: the slug map save_slug_map was first given

gvars == <<profile, lang, slug_map, en_files, run, ai, pc, target, cache, leaves,
           pending, batch_len, idx, call, calls, flushes, nseg, out, disk, missing_met>>

\* The variables of build_slug_map, and of update_hreflang_links.
bvars == <<docs, bs_pc, bs_key, bs_lang, used_slugs>>

hvars == <<soup, soup_in, en_slug, h_pc>>

\* The variables of update_internal_links, of update_existing_hreflang, of
\* update_sitemap, and of main with save_slug_map and load_slug_map.
lvars == <<hrefs, hrefs_in, symbol_slugs, l_pc>>

uvars == <<corpus, corpus1, u_pass, u_file, i18n>>

svars == <<xml, xml_in, xml1, s_runs>>

pvars == <<cmd, m_pc, persisted, persisted_in, saved1, omap, omap_in>>

xvars == <<lvars, uvars, svars, pvars>>

vars == <<gvars, bvars, hvars, xvars>>

NoCall == [text |-> <<>>, attempt |-> 0, from |-> "none", held |-> <<>>]

\* The slug map load_slug_map returns: article "a" has a German slug and no
\* Italian one, the root has its empty slugs.
InputSlugMap ==
  [k \in {<<"a">>, IndexKey} |->
     IF k = IndexKey THEN [l \in {"en", "fr", "es", "de", "it"} |-> <<>>]
     ELSE [en |-> <<"a">>, fr |-> <<"a", "-", "f">>, es |-> <<"a", "-", "e">>, de |-> <<"a", "-", "d">>]]

\* build_slug_map is not running; update_hreflang_links is not under study.
NoBuild ==
  /\ docs = <<>>
  /\ bs_pc = "done"
  /\ bs_key = 0
  /\ bs_lang = 0
  /\ used_slugs = <<>>

NoHreflang ==
  /\ soup = <<>>
  /\ soup_in = <<>>
  /\ en_slug = <<>>
  /\ h_pc = "done"

\* update_internal_links, update_existing_hreflang, update_sitemap and the
\* slug-map file are not under study.
NoLinks ==
  /\ hrefs = <<>>
  /\ hrefs_in = <<>>
  /\ symbol_slugs = <<>>
  /\ l_pc = "done"

NoUpdate ==
  /\ corpus = <<>>
  /\ corpus1 = <<>>
  /\ u_pass = 0
  /\ u_file = 0
  /\ i18n = <<>>

NoSitemap ==
  /\ xml = <<>>
  /\ xml_in = <<>>
  /\ xml1 = <<>>
  /\ s_runs = 0

NoMain ==
  /\ cmd = "none"
  /\ m_pc = "done"
  /\ persisted = <<>>
  /\ persisted_in = <<>>
  /\ saved1 = <<>>
  /\ omap = <<>>
  /\ omap_in = <<>>

InitGenerate ==
  /\ profile \in Profiles
  /\ lang \in (IF profile = "long" THEN {"de"} ELSE {"de", "it"})
  /\ slug_map = InputSlugMap
  /\ en_files = EnFiles(profile)
  /\ run = "running"
  /\ ai = 1
  /\ pc = "begin"
  /\ target = 0
  /\ cache = <<>>
  /\ leaves = <<>>
  /\ pending = <<>>
  /\ batch_len = 0
  /\ idx = 0
  /\ call = NoCall
  /\ calls = <<>>
  /\ flushes = <<>>
  /\ nseg = 0
  /\ out = <<>>
  /\ disk = <<>>
  /\ missing_met = FALSE
  /\ NoBuild
  /\ NoHreflang
  /\ NoLinks /\ NoUpdate /\ NoSitemap /\ NoMain

Idle == run = "running" /\ call.from = "none"

\* ------------------------------------------------------- translate_text_nodes

\* A flush that takes the first marker of the answer, whatever its index.
TranslatedFirst(item, translated_html) ==
  LET spans == ParseSpans(translated_html)
  IN  IF spans # <<>> THEN Unescape(spans[1].text) ELSE item.core

\* A flush that leaves a node empty when the answer lost its marker.
TranslatedOrEmpty(item, translated_html) ==
  LET span == FindSpan(translated_html, item.i)
  IN  IF span # <<>> THEN span[1] ELSE <<>>

\* flush: translated = span.get_text() if span else core
Translated(item, translated_html) ==
  LET span == FindSpan(translated_html, item.i)
  IN  IF span # <<>> THEN span[1] ELSE item.core

\* flush, the loop over batch_items: cache[core] = translated, item after item
RECURSIVE FlushCache(_, _, _)
FlushCache(items, translated_html, ch) ==
  IF items = <<>> THEN ch
  ELSE FlushCache(Tail(items), translated_html,
                  CachePut(ch, Head(items).core, Translated(Head(items), translated_html)))

\* flush, the loop over batch_items: node.replace_with(f'{prefix}{translated}{suffix}')
FlushLeaves(items, translated_html, lv) ==
  [k \in DOMAIN lv |->
     IF \E j \in DOMAIN items : items[j].node = k
     THEN LET item == items[CHOOSE j \in DOMAIN items : items[j].node = k]
          IN  [lv[k] EXCEPT !.text = item.prefix \o Translated(item, translated_html) \o item.suffix]
     ELSE lv[k]]

TextsOf(lv) == [k \in DOMAIN lv |-> lv[k].text]

\* What the translator may answer in this corpus.
AnswersFor(p, text) == IF p = "long" THEN Answers(text, {1}, FALSE) ELSE Answers(text, Variants, TRUE)

\* What follows a translate_text(text) that returned r to translate_head or
\* translate_attributes: the string is put in the soup.
ReturnText(r, ch) ==
  /\ out' = Append(out, r)
  /\ cache' = ch
  /\ call' = NoCall
  /\ UNCHANGED <<leaves, pending, batch_len, idx, flushes, pc>>

\* What follows a translate_text(html) that returned r to flush: the rest of
\* flush and, when the flush was the one inside the loop, the rest of the
\* loop body (pending = [], batch_len = 0, idx = 0, then the append of the
\* node that did not fit); when it was the last one, translate_text_nodes ends.
\* lv is the list of text nodes, fl the history of batch requests.
ReturnFlush(held, r, ch, fl, lv) ==
  /\ cache' = FlushCache(pending, r, ch)
  /\ call' = NoCall
  /\ flushes' = fl
  /\ IF held # <<>>
     THEN LET h == held[1]
          IN  /\ leaves' = [FlushLeaves(pending, r, lv) EXCEPT ![h.node].b = Len(fl) + 1, ![h.node].i = 0]
              /\ pending' = <<[i |-> 0, node |-> h.node, prefix |-> h.prefix, core |-> h.core, suffix |-> h.suffix]>>
              /\ batch_len' = h.wl
              /\ idx' = 1
              /\ UNCHANGED <<pc, out>>
     ELSE /\ leaves' = FlushLeaves(pending, r, lv)
          /\ pc' = "attrs"
          /\ out' = out \o TextsOf(leaves')
          /\ UNCHANGED <<pending, batch_len, idx>>

\* flush(pending), up to the translator: html is built and handed to
\* translate_text, which answers from the cache or calls the translator.
StartFlush(held, lv) ==
  LET html == BatchHtml(pending)
  IN  IF html \in DOMAIN cache
      THEN ReturnFlush(held, cache[html], cache, Append(flushes, [html |-> html, resp |-> cache[html], done |-> TRUE]), lv)
      ELSE /\ call' = [text |-> html, attempt |-> 0, from |-> "flush", held |-> held]
           /\ flushes' = Append(flushes, [html |-> html, resp |-> <<>>, done |-> FALSE])
           /\ leaves' = lv
           /\ UNCHANGED <<cache, pending, batch_len, idx, pc, out>>

\* translate_text(text) called by translate_head or translate_attributes.
StartText(text, from) ==
  IF text \in DOMAIN cache THEN ReturnText(cache[text], cache)
  ELSE IF IsBlank(text) THEN ReturnText(text, CachePut(cache, text, text))
  ELSE /\ call' = [text |-> text, attempt |-> 0, from |-> from, held |-> <<>>]
       /\ UNCHANGED <<cache, leaves, pending, batch_len, idx, flushes, pc, out>>

\* A test of the budget that forgets what the batch already holds.
OverflowsAlone(pnd, blen, wl) == pnd # <<>> /\ wl > MAX_BATCH_CHARS

\* if pending and batch_len + len(wrapper) > MAX_BATCH_CHARS
Overflows(pnd, blen, wl) == pnd # <<>> /\ blen + wl > MAX_BATCH_CHARS

\* One pass of the loop of translate_text_nodes over a text node.
ScanLeaf(text, kind) ==
  /\ Idle /\ pc = "scan" /\ nseg < Budget(profile)
  /\ nseg' = nseg + 1
  /\ LET node  == Len(leaves) + 1
         leaf  == [orig |-> text, text |-> text, kind |-> kind, b |-> 0, i |-> 0]
         sp    == SplitText(text)
         wl    == StrLen(Wrapper(idx, sp.core))
     IN  IF kind = "comment" \/ IsBlank(text) \/ kind = "skip" \/ sp.core = <<>>
         THEN /\ leaves' = Append(leaves, leaf)
              /\ UNCHANGED <<cache, pending, batch_len, idx, call, flushes, pc, out>>
         ELSE IF sp.core \in DOMAIN cache
         THEN /\ leaves' = Append(leaves, [leaf EXCEPT !.text = sp.prefix \o cache[sp.core] \o sp.suffix])
              /\ UNCHANGED <<cache, pending, batch_len, idx, call, flushes, pc, out>>
         ELSE IF Overflows(pending, batch_len, wl)
         THEN StartFlush(<<[node |-> node, prefix |-> sp.prefix, core |-> sp.core, suffix |-> sp.suffix, wl |-> wl]>>,
                         Append(leaves, leaf))
         ELSE /\ leaves' = Append(leaves, [leaf EXCEPT !.b = Len(flushes) + 1, !.i = idx])
              /\ pending' = Append(pending, [i |-> idx, node |-> node, prefix |-> sp.prefix, core |-> sp.core, suffix |-> sp.suffix])
              /\ batch_len' = batch_len + wl
              /\ idx' = idx + 1
              /\ UNCHANGED <<cache, call, flushes, pc, out>>
  /\ UNCHANGED <<xvars, bvars, hvars, profile, lang, slug_map, en_files, run, ai, target, calls, disk, missing_met>>

\* The end of the loop of translate_text_nodes: flush(pending).
EndScan ==
  /\ Idle /\ pc = "scan"
  /\ IF pending = <<>>
     THEN /\ pc' = "attrs"
          /\ out' = out \o TextsOf(leaves)
          /\ UNCHANGED <<cache, leaves, pending, batch_len, idx, call, flushes>>
     ELSE StartFlush(<<>>, leaves)
  /\ UNCHANGED <<xvars, bvars, hvars, profile, lang, slug_map, en_files, run, ai, target, calls, nseg, disk, missing_met>>

\* ------------------------------------------------------------- translate_text

\* translator.translate(text) answered: cache[text] = translated; return translated
TranslateOk ==
  /\ run = "running" /\ call.from # "none"
  /\ \E r \in AnswersFor(profile, call.text) :
       /\ calls' = Append(calls, [text |-> call.text, ok |-> TRUE, result |-> r])
       /\ IF call.from = "flush"
          THEN ReturnFlush(call.held, r, CachePut(cache, call.text, r),
                           [flushes EXCEPT ![Len(flushes)] = [@ EXCEPT !.resp = r, !.done = TRUE]], leaves)
          ELSE ReturnText(r, CachePut(cache, call.text, r))
  /\ UNCHANGED <<xvars, bvars, hvars, profile, lang, slug_map, en_files, run, ai, target, nseg, disk, missing_met>>

\* A loop of translate_text with one attempt too many.
ExhaustedLate(attempt) == attempt + 1 >= MAX_ATTEMPTS + 1

\* After this failure the loop of translate_text goes on, or has run out.
Exhausted(attempt) == attempt + 1 >= MAX_ATTEMPTS

\* translator.translate(text) raised: the next attempt, or raise last_err,
\* which nothing catches: it leaves generate_article and main.
TranslateFail ==
  /\ run = "running" /\ call.from # "none" /\ MayFail(profile)
  /\ Cardinality({k \in DOMAIN calls : ~calls[k].ok}) < MaxFailures
  /\ calls' = Append(calls, [text |-> call.text, ok |-> FALSE, result |-> <<>>])
  /\ IF Exhausted(call.attempt)
     THEN /\ run' = "error"
          /\ call' = NoCall
     ELSE /\ call' = [call EXCEPT !.attempt = @ + 1]
          /\ run' = run
  /\ UNCHANGED <<xvars, bvars, hvars, profile, lang, slug_map, en_files, ai, pc, target, cache, leaves, pending,
                 batch_len, idx, flushes, nseg, out, disk, missing_met>>

\* ------------------------------------------------------------ generate_article

\* The for loop of main moves to the next file, or main returns.
Advance ==
  /\ ai' = ai + 1
  /\ pc' = "begin"
  /\ run' = IF ai = Len(en_files) THEN "done" ELSE "running"

\* generate_article up to translate_head: the key, the target slug, and the
\* silent return when the article has no slug for the language.
BeginArticle ==
  /\ Idle /\ pc = "begin"
  /\ LET key         == en_files[ai]
         target_slug == IF key = IndexKey THEN <<>> ELSE SlugGet(slug_map, key, lang, <<>>)
     IN  IF key # IndexKey /\ target_slug = <<>>
         THEN /\ Advance
              /\ missing_met' = TRUE
              /\ out' = out
         ELSE /\ pc' = "head"
              /\ out' = <<>>
              /\ UNCHANGED <<ai, run, missing_met>>
  /\ UNCHANGED <<xvars, bvars, hvars, profile, lang, slug_map, en_files, target, cache, leaves, pending, batch_len,
                 idx, call, calls, flushes, nseg, disk>>

\* translate_head: one of the strings of the head (title, descriptions,
\* JSON-LD fields) goes through translate_text.
HeadString(text) ==
  /\ Idle /\ pc = "head" /\ nseg < Budget(profile)
  /\ nseg' = nseg + 1
  /\ StartText(text, "head")
  /\ UNCHANGED <<xvars, bvars, hvars, profile, lang, slug_map, en_files, run, ai, target, calls, disk, missing_met>>

\* A translate_head that saves the document as soon as the head is done.
EndHeadWrites ==
  /\ Idle /\ pc = "head"
  /\ pc' = "body"
  /\ target' = 0
  /\ disk' = CachePut(disk, <<"partial">>, [key |-> en_files[ai], lang |-> lang, texts |-> out, links |-> <<>>])
  /\ UNCHANGED <<xvars, bvars, hvars, profile, lang, slug_map, en_files, run, ai, cache, leaves, pending,
                 batch_len, idx, call, calls, flushes, nseg, out, missing_met>>

\* translate_head is done; translate_body looks for its targets.
EndHead ==
  /\ Idle /\ pc = "head"
  /\ pc' = "body"
  /\ target' = 0
  /\ UNCHANGED <<xvars, bvars, hvars, profile, lang, slug_map, en_files, run, ai, cache, leaves, pending, batch_len,
                 idx, call, calls, flushes, nseg, out, disk, missing_met>>

\* translate_body: translate_text_nodes(target, ...) starts on the next target.
BeginRegion ==
  /\ Idle /\ pc = "body" /\ target < Len(Targets(profile))
  /\ pc' = "scan"
  /\ leaves' = <<>>
  /\ pending' = <<>>
  /\ batch_len' = 0
  /\ idx' = 0
  /\ UNCHANGED <<xvars, bvars, hvars, profile, lang, slug_map, en_files, run, ai, target, cache, call, calls,
                 flushes, nseg, out, disk, missing_met>>

\* translate_attributes: one alt, aria-label or title value of the target.
Attribute(value) ==
  /\ Idle /\ pc = "attrs" /\ nseg < Budget(profile)
  /\ nseg' = nseg + 1
  /\ StartText(value, "attr")
  /\ UNCHANGED <<xvars, bvars, hvars, profile, lang, slug_map, en_files, run, ai, target, calls, disk, missing_met>>

\* translate_attributes is done with the target.
EndRegion ==
  /\ Idle /\ pc = "attrs"
  /\ pc' = "body"
  /\ target' = target + 1
  /\ UNCHANGED <<xvars, bvars, hvars, profile, lang, slug_map, en_files, run, ai, cache, leaves, pending, batch_len,
                 idx, call, calls, flushes, nseg, out, disk, missing_met>>

\* translate_body has no target left.
EndBody ==
  /\ Idle /\ pc = "body"
  /\ pc' = "finish"
  /\ UNCHANGED <<xvars, bvars, hvars, profile, lang, slug_map, en_files, run, ai, target, cache, leaves, pending,
                 batch_len, idx, call, calls, flushes, nseg, out, disk, missing_met>>

\* ------------------------------------------------------ update_internal_links
\* An href is the sequence of its segments between the slashes: '/en/blog/x'
\* is <<'', 'en', 'blog', 'x'>> and '../symbols/wolf' is <<'..', 'symbols', 'wolf'>>.
Seg(c) == <<c>>

\* LANG_INFO[lang]['symbols_dir']
SymbolsDir(l) ==
  CASE l = "en" -> Seg("symbols") [] l = "fr" -> Seg("symboles") [] l = "es" -> Seg("simbolos")
    [] l = "de" -> Seg("traumsymbole") [] l = "it" -> Seg("simboli")

\* load_symbol_slug_map(): docs/data/dream-symbols.json as read by the run.
SymbolSlugs == [s \in {Seg("wolf")} |-> [de |-> <<"w", "-", "d">>]]

\* The links of the English documents of the corpus.
DocLinks(key) ==
  IF key = IndexKey THEN <<(<<Seg(".."), Seg("symbols"), Seg("moon")>>), (<<(<<"a">>)>>)>>
  ELSE <<(<<Seg(".."), Seg("symbols"), Seg("wolf")>>), (<<(<<>>), Seg("en"), Seg("blog"), (<<>>)>>)>>

IsSymbolLink(href) == Len(href) >= 3 /\ href[1] = Seg("..") /\ href[2] = Seg("symbols")

\* A lookup that never finds the symbol.
SymbolNeverFound(href, l, sym) == IsSymbolLink(href)

\* href.split('../symbols/', 1)[1]: the rest of the href, a symbol when it is
\* one segment.
SymbolMissing(href, l, sym) ==
  /\ IsSymbolLink(href)
  /\ ~(Len(href) = 3 /\ href[3] \in DOMAIN sym /\ l \in DOMAIN sym[href[3]])

\* The body of the loop of update_internal_links, for one <a href>.
RewriteHref(href, l, sm, sym) ==
  IF href = <<>> \/ href = <<(<<>>)>> THEN href
  ELSE IF href[1] \in {Seg("http:"), Seg("https:"), Seg("mailto:")} THEN href
  ELSE IF href[1] # <<>> /\ href[1][1] = "#" THEN href
  ELSE
    LET h1 == IF Len(href) >= 3 /\ href[1] = <<>> /\ href[2] = Seg("en")
              THEN [href EXCEPT ![2] = Seg(l)] ELSE href
        h2 == IF Len(h1) >= 4 /\ h1[1] = <<>> /\ h1[2] = Seg("en") /\ h1[3] = Seg("blog")
              THEN [h1 EXCEPT ![2] = Seg(l)] ELSE h1
        h3 == IF IsSymbolLink(h2)
              THEN IF SymbolMissing(h2, l, sym)
                   THEN <<Seg(".."), SymbolsDir(l)>> \o SubSeq(h2, 3, Len(h2))
                   ELSE <<Seg(".."), SymbolsDir(l), sym[h2[3]][l]>>
              ELSE h2
        h4 == IF Len(h3) = 1 /\ h3[1] \notin {Seg("."), Seg("..")} /\ h3[1] \in DOMAIN sm
                 /\ SlugGet(sm, h3[1], l, <<>>) # <<>>
              THEN <<sm[h3[1]][l]>> ELSE h3
    IN  h4

update_internal_links(links, l, sm, sym) == [k \in DOMAIN links |-> RewriteHref(links[k], l, sm, sym)]

\* The rest of generate_article: the link rewriters, then write_file.
FinishArticle ==
  /\ Idle /\ pc = "finish"
  /\ LET key         == en_files[ai]
         target_slug == IF key = IndexKey THEN <<>> ELSE SlugGet(slug_map, key, lang, <<>>)
         out_path    == (IF key = IndexKey THEN IndexKey ELSE target_slug) \o <<".html">>
         links       == update_internal_links(DocLinks(key), lang, slug_map, SymbolSlugs)
     IN  /\ disk' = CachePut(disk, out_path, [key |-> key, lang |-> lang, texts |-> out, links |-> links])
         /\ missing_met' = (missing_met \/ \E k \in DOMAIN DocLinks(key) : SymbolMissing(DocLinks(key)[k], lang, SymbolSlugs))
  /\ Advance
  /\ UNCHANGED <<xvars, bvars, hvars, profile, lang, slug_map, en_files, target, cache, leaves, pending, batch_len,
                 idx, call, calls, flushes, nseg, out>>

Next ==
  \/ BeginArticle
  \/ \E text \in HeadTexts(profile) : HeadString(text)
  \/ EndHead
  \/ BeginRegion
  \/ \E leaf \in LeafChoices(profile) : ScanLeaf(leaf.text, leaf.kind)
  \/ EndScan
  \/ \E value \in AttrTexts(profile) : Attribute(value)
  \/ EndRegion
  \/ EndBody
  \/ TranslateOk
  \/ TranslateFail
  \/ FinishArticle

Spec == InitGenerate /\ [][Next]_vars

\* ------------------------------------------------------------------ blog URLs
\* A URL is whether it starts with DOMAIN, and the segments of its path
\* between the slashes: DOMAIN + '/fr/blog/x' has path <<'fr', 'blog', 'x'>>
\* and DOMAIN + '/fr/blog/' has path <<'fr', 'blog', ''>>. A slug is the
\* sequence of its characters. The empty string is EmptyUrl.
Url(domain, path) == [domain |-> domain, path |-> path]

EmptyUrl == Url(FALSE, <<>>)

LangSet == {LANGS[k] : k \in DOMAIN LANGS}

\* '/'.join(segments).strip('/'): the segments that are not empty, with a
\* slash between them (the URLs of the corpus have no empty inner segment).
RECURSIVE JoinPath(_)
JoinPath(segments) ==
  IF segments = <<>> THEN <<>>
  ELSE LET rest == JoinPath(Tail(segments))
       IN  IF Head(segments) = <<>> THEN rest
           ELSE IF rest = <<>> THEN Head(segments)
           ELSE Head(segments) \o <<"/">> \o rest

\* extract_slug_from_url(url): (lang, slug), or ('', '') when the URL is not
\* one of the blog; the pair is a record here, lang '' being "".
extract_slug_from_url(url) ==
  IF url = EmptyUrl \/ ~url.domain THEN [lang |-> "", slug |-> <<>>]
  ELSE IF Len(url.path) >= 2 /\ Len(url.path[1]) = 1 /\ url.path[1][1] \in LangSet
          /\ url.path[2] = <<"blog">>
       THEN [lang |-> url.path[1][1], slug |-> JoinPath(SubSeq(url.path, 3, Len(url.path)))]
       ELSE [lang |-> "", slug |-> <<>>]

\* build_blog_url(lang, slug)
build_blog_url(l, slug) ==
  IF slug # <<>> THEN Url(TRUE, <<(<<l>>), (<<"blog">>), slug>>)
  ELSE Url(TRUE, <<(<<l>>), (<<"blog">>), (<<>>)>>)

\* -------------------------------------------------------------------- slugify
\* A title is the sequence of its characters.
Whitespace == {" ", "\n"}

RECURSIVE LStrip(_, _)
LStrip(s, drop) == IF s # <<>> /\ Head(s) \in drop THEN LStrip(Tail(s), drop) ELSE s

RECURSIVE RStrip(_, _)
RStrip(s, drop) ==
  IF s # <<>> /\ s[Len(s)] \in drop THEN RStrip(SubSeq(s, 1, Len(s) - 1), drop) ELSE s

\* str.strip(chars)
Strip(s, drop) == RStrip(LStrip(s, drop), drop)

\* str.lower(), on the capitals of the titles of the corpus
Lower(c) ==
  CASE c = "A" -> "a" [] c = "B" -> "b" [] c = "E" -> "e" [] c = "\"A" -> "\"a"
    [] OTHER -> c

\* .replace('ae-umlaut', 'ae') and the three replacements after it; the
\* letter a with an umlaut is written "\"a" here, the sharp s "sz".
Transliterate(c) ==
  CASE c = "\"a" -> <<"a", "e">> [] c = "\"o" -> <<"o", "e">> [] c = "\"u" -> <<"u", "e">>
    [] c = "sz" -> <<"s", "s">> [] OTHER -> <<c>>

\* unicodedata.normalize('NFKD', ch) without its combining marks; the letter
\* e with an acute accent is written "'e" here.
Decompose(c) == CASE c = "'e" -> "e" [] c = "'a" -> "a" [] OTHER -> c

Alnum ==
  {"a", "b", "c", "d", "e", "f", "g", "h", "i", "j", "k", "l", "m", "n", "o", "p", "q", "r",
   "s", "t", "u", "v", "w", "x", "y", "z", "0", "1", "2", "3", "4", "5", "6", "7", "8", "9"}

RECURSIVE Fold(_)
Fold(s) ==
  IF s = <<>> THEN <<>>
  ELSE LET t == Transliterate(Lower(Head(s)))
       IN  [k \in DOMAIN t |-> Decompose(t[k])] \o Fold(Tail(s))

\* re.sub(r'[^a-z0-9]+', '-', value), then re.sub(r'-+', '-', value)
RECURSIVE Hyphenate(_)
Hyphenate(s) ==
  IF s = <<>> THEN <<>>
  ELSE LET rest == Hyphenate(Tail(s))
       IN  IF Head(s) \in Alnum THEN <<Head(s)>> \o rest
           ELSE IF rest # <<>> /\ Head(rest) = "-" THEN rest
           ELSE <<"-">> \o rest

slugify(text) == Strip(Hyphenate(Fold(Strip(text, Whitespace))), {"-"})

\* ------------------------------------------------------------- build_slug_map
\* A <link> element: rel, hreflang and href ("" and EmptyUrl when absent).
Link(rel, hreflang, href) == [rel |-> rel, hreflang |-> hreflang, href |-> href]

Chars(c) == <<c>>

\* The English documents build_slug_map may read: the <link rel="alternate">
\* elements of each, in document order, and the h1 if there is one.
DocChoices ==
  { [links |-> <<>>, h1 |-> <<>>],
    [links |-> <<Link("alternate", "fr", build_blog_url("fr", Chars("x"))),
                 Link("alternate", "es", build_blog_url("es", <<>>))>>,
     h1    |-> << <<"A", " ", "'e", "!">> >>],
    [links |-> <<Link("alternate", "", build_blog_url("es", Chars("y"))),
                 Link("alternate", "it", Url(FALSE, <<Chars("it"), Chars("blog"), Chars("y")>>)),
                 Link("alternate", "x-default", build_blog_url("fr", Chars("x")))>>,
     h1    |-> << <<"!">> >>] }

\* list_blog_files('en') of the corpus of build_slug_map, as keys.
BuildFiles == <<Chars("a"), Chars("b"), Chars("c"), IndexKey>>

\* What translator.translate may answer to a title.
TitleAnswers == {<<"A">>, <<" ", "a", "-", "2">>, <<"?">>}

\* The alternates dict of one document: lang -> slug, a later link
\* overwriting an earlier one of the same language.
RECURSIVE Alternates(_)
Alternates(links) ==
  IF links = <<>> THEN <<>>
  ELSE LET link  == links[Len(links)]
           first == Alternates(SubSeq(links, 1, Len(links) - 1))
           found == extract_slug_from_url(link.href)
       IN  IF link.hreflang = "" \/ link.href = EmptyUrl \/ found.lang = "" THEN first
           ELSE CachePut(first, found.lang, found.slug)

\* entry = slug_map.setdefault(en_slug or 'index', {}) and what the first
\* loop writes into it.
Seeded(sm, key, alternates) ==
  LET en_slug_ == IF key = IndexKey THEN <<>> ELSE key
      entry0   == IF key \in DOMAIN sm THEN sm[key] ELSE <<>>
      entry1   == CachePut(entry0, "en", en_slug_)
      entry2   == IF "fr" \in DOMAIN alternates THEN CachePut(entry1, "fr", alternates["fr"]) ELSE entry1
      entry3   == IF "es" \in DOMAIN alternates THEN CachePut(entry2, "es", alternates["es"]) ELSE entry2
  IN  CachePut(sm, key, entry3)

\* The variables only the `generate` run uses.
gonly == <<profile, lang, ai, pc, target, cache, leaves, pending, batch_len, idx, call,
           calls, flushes, nseg, out, disk, missing_met>>

NoGenerate ==
  /\ profile = "mixed"
  /\ lang = "de"
  /\ ai = 1
  /\ pc = "begin"
  /\ target = 0
  /\ cache = <<>>
  /\ leaves = <<>>
  /\ pending = <<>>
  /\ batch_len = 0
  /\ idx = 0
  /\ call = NoCall
  /\ calls = <<>>
  /\ flushes = <<>>
  /\ nseg = 0
  /\ out = <<>>
  /\ disk = <<>>
  /\ missing_met = FALSE

\* What no step of build_slug_map changes.
bframe == <<docs, en_files, gonly, hvars, xvars>>

\* One pass of the first loop of build_slug_map, over an English file.
SeedEntry ==
  /\ run = "running" /\ bs_pc = "seed" /\ bs_key <= Len(en_files)
  /\ slug_map' = Seeded(slug_map, en_files[bs_key], Alternates(docs[en_files[bs_key]].links))
  /\ bs_key' = bs_key + 1
  /\ UNCHANGED <<bframe, run, bs_pc, bs_lang, used_slugs>>

\* used_slugs = {lang: set() for lang in ['de', 'it']}
BeginGenerate ==
  /\ run = "running" /\ bs_pc = "seed" /\ bs_key > Len(en_files)
  /\ bs_pc' = "generate"
  /\ bs_key' = 1
  /\ bs_lang' = 1
  /\ used_slugs' = [l \in {"de", "it"} |-> {}]
  /\ UNCHANGED <<bframe, run, slug_map>>

\* The while loop: the first of base, base-2, base-3, ... that is not used.
RECURSIVE Numbered(_, _, _)
Numbered(base, counter, used) ==
  LET candidate == base \o <<"-", ToString(counter)>>
  IN  IF candidate \in used THEN Numbered(base, counter + 1, used) ELSE candidate

Unused(base, used) == IF base \in used THEN Numbered(base, 2, used) ELSE base

GenLangs == <<"de", "it">>

\* The second loop meets the key 'index'.
RootEntry ==
  /\ run = "running" /\ bs_pc = "generate" /\ bs_key <= Len(en_files)
  /\ en_files[bs_key] = IndexKey
  /\ slug_map' = [slug_map EXCEPT ![IndexKey] = CachePut(CachePut(@, "de", <<>>), "it", <<>>)]
  /\ bs_key' = bs_key + 1
  /\ UNCHANGED <<bframe, run, bs_pc, bs_lang, used_slugs>>

\* The inner loop moves on: the next language, or the next key.
NextLang ==
  /\ bs_lang' = IF bs_lang = Len(GenLangs) THEN 1 ELSE bs_lang + 1
  /\ bs_key' = IF bs_lang = Len(GenLangs) THEN bs_key + 1 ELSE bs_key

\* title_text = h1.get_text(strip=True) if h1 else en_slug
TitleText(key) ==
  IF docs[key].h1 # <<>> THEN Strip(docs[key].h1[1], Whitespace)
  ELSE SlugGet(slug_map, key, "en", key)

\* One pass of the inner loop of the second loop: the slug of an article in
\* de or it, from the title the translator returned.
GenerateSlug(translated_title) ==
  /\ run = "running" /\ bs_pc = "generate" /\ bs_key <= Len(en_files)
  /\ en_files[bs_key] # IndexKey
  /\ LET key  == en_files[bs_key]
         l    == GenLangs[bs_lang]
         c1   == slugify(translated_title)
         base == IF c1 = <<>> THEN slugify(TitleText(key)) ELSE c1
         candidate == Unused(base, used_slugs[l])
     IN  IF SlugGet(slug_map, key, l, <<>>) # <<>>
         THEN UNCHANGED <<slug_map, used_slugs>>
         ELSE /\ used_slugs' = [used_slugs EXCEPT ![l] = @ \cup {candidate}]
              /\ slug_map' = [slug_map EXCEPT ![key] = CachePut(@, l, candidate)]
  /\ NextLang
  /\ UNCHANGED <<bframe, run, bs_pc>>

\* translator.translate(title_text) raised: nothing catches it.
TitleFails ==
  /\ run = "running" /\ bs_pc = "generate" /\ bs_key <= Len(en_files)
  /\ en_files[bs_key] # IndexKey
  /\ SlugGet(slug_map, en_files[bs_key], GenLangs[bs_lang], <<>>) = <<>>
  /\ run' = "error"
  /\ UNCHANGED <<bframe, slug_map, bs_pc, bs_key, bs_lang, used_slugs>>

\* return slug_map
ReturnSlugMap ==
  /\ run = "running" /\ bs_pc = "generate" /\ bs_key > Len(en_files)
  /\ bs_pc' = "done"
  /\ run' = "done"
  /\ UNCHANGED <<bframe, slug_map, bs_key, bs_lang, used_slugs>>

InitBuild ==
  /\ docs \in [{BuildFiles[k] : k \in DOMAIN BuildFiles} -> DocChoices]
  /\ en_files = BuildFiles
  /\ slug_map = <<>>
  /\ run = "running"
  /\ bs_pc = "seed"
  /\ bs_key = 1
  /\ bs_lang = 1
  /\ used_slugs = <<>>
  /\ NoGenerate
  /\ NoHreflang
  /\ NoLinks /\ NoUpdate /\ NoSitemap /\ NoMain

NextBuild ==
  \/ SeedEntry
  \/ BeginGenerate
  \/ RootEntry
  \/ \E translated_title \in TitleAnswers : GenerateSlug(translated_title)
  \/ TitleFails
  \/ ReturnSlugMap

SpecBuild == InitBuild /\ [][NextBuild]_vars

\* ------------------------------------------------------ update_hreflang_links
\* A document is its head, when it has one, and the rest of it; of each only
\* the <link> elements are kept, in document order.
MaxHead == 3

Document(hasHead, head, body) == [hasHead |-> hasHead, head |-> head, body |-> body]

\* The <link> elements the documents of the corpus are made of.
LinkChoices ==
  { Link("alternate", "fr", build_blog_url("fr", Chars("x"))),
    Link("alternate", "pt", build_blog_url("en", Chars("a"))),
    Link("canonical", "", build_blog_url("en", Chars("a"))),
    Link("next", "", build_blog_url("en", Chars("b"))),
    Link("prev", "", build_blog_url("en", <<>>)),
    Link("stylesheet", "", EmptyUrl) }

SeqsUpTo(S, n) == UNION {[1..k -> S] : k \in 0..n}

DocumentChoices ==
  {Document(TRUE, head, body) :
     head \in SeqsUpTo(LinkChoices, MaxHead),
     body \in {<<>>, <<Link("alternate", "fr", build_blog_url("fr", Chars("x")))>>}}
  \cup
  {Document(FALSE, <<>>, body) :
     body \in {<<>>, <<Link("alternate", "fr", build_blog_url("fr", Chars("x")))>>,
               <<Link("canonical", "", build_blog_url("en", Chars("a")))>>}}

\* The keys update_hreflang_links is called with: an article of the slug map,
\* the root, and an article the slug map does not hold.
KeyChoices == {Chars("a"), IndexKey, Chars("z")}

\* A removal that removes nothing.
KeepAll(e) == TRUE

\* What the first loop leaves in the head: link.decompose() takes every
\* <link rel="alternate"> out.
NotAlternate(e) == e.rel # "alternate"

\* head.find('link', rel=...): the position of the first such link, 0 for None
FindRel(head, rel) ==
  IF \E k \in DOMAIN head : head[k].rel = rel
  THEN CHOOSE k \in DOMAIN head : head[k].rel = rel /\ \A j \in 1..(k - 1) : head[j].rel # rel
  ELSE 0

order == <<"fr", "en", "es", "de", "it", "x-default">>

\* The href of the tag the second loop makes for one entry of order.
HreflangHref(l, sm, key) ==
  IF l = "x-default"
  THEN build_blog_url("en", IF key # IndexKey THEN SlugGet(sm, key, "en", key) ELSE <<>>)
  ELSE build_blog_url(l, IF key = IndexKey THEN <<>> ELSE SlugGet(sm, key, l, <<>>))

update_hreflang_links(doc, sm, key) ==
  IF ~doc.hasHead THEN doc
  ELSE
    LET kept == SelectSeq(doc.head, NotAlternate)
        insert_after ==
          IF FindRel(kept, "next") # 0 THEN FindRel(kept, "next")
          ELSE IF FindRel(kept, "prev") # 0 THEN FindRel(kept, "prev")
          ELSE FindRel(kept, "canonical")
        tags == [k \in DOMAIN order |-> Link("alternate", order[k], HreflangHref(order[k], sm, key))]
    IN  [doc EXCEPT !.head =
           IF insert_after # 0
           THEN SubSeq(kept, 1, insert_after) \o tags \o SubSeq(kept, insert_after + 1, Len(kept))
           ELSE kept \o tags]

\* update_hreflang_links(soup, slug_map, en_slug), as generate_article and
\* update_existing_hreflang call it.
UpdateHreflang ==
  /\ h_pc = "call"
  /\ soup' = update_hreflang_links(soup, slug_map, en_slug)
  /\ h_pc' = "done"
  /\ UNCHANGED <<soup_in, en_slug, slug_map, en_files, run, gonly, bvars, xvars>>

InitHreflang ==
  /\ soup \in DocumentChoices
  /\ soup_in = soup
  /\ en_slug \in KeyChoices
  /\ h_pc = "call"
  /\ slug_map = InputSlugMap
  /\ en_files = <<>>
  /\ run = "running"
  /\ NoGenerate
  /\ NoBuild
  /\ NoLinks /\ NoUpdate /\ NoSitemap /\ NoMain

NextHreflang == UpdateHreflang

SpecHreflang == InitHreflang /\ [][NextHreflang]_vars

\* ------------------------------------------- update_internal_links, on its own
MaxLinks == 2

\* The hrefs of the <a> elements of the documents of this corpus.
HrefChoices ==
  { <<Seg(".."), Seg("symbols"), Seg("wolf")>>,
    <<Seg(".."), Seg("symbols"), Seg("moon")>>,
    <<Seg(".."), Seg("symbols"), Seg("wolf"), Seg("x")>>,
    <<Seg("https:"), (<<>>), Seg("x"), Seg("symbols"), Seg("wolf")>>,
    <<Seg("mailto:")>>,
    <<(<<"#", "a">>)>>,
    <<(<<>>), Seg("en"), Seg("blog"), Chars("a")>>,
    <<Chars("a")>>,
    <<>> }

\* What load_symbol_slug_map may return.
SymbolTables ==
  { SymbolSlugs,
    [s \in {Seg("wolf"), Seg("moon")} |-> IF s = Seg("wolf") THEN [it |-> Chars("a")] ELSE [de |-> Chars("a")]],
    <<>> }

\* update_internal_links(soup, lang, slug_map, symbol_slugs)
UpdateInternalLinks ==
  /\ l_pc = "call"
  /\ hrefs' = update_internal_links(hrefs, lang, slug_map, symbol_slugs)
  /\ l_pc' = "done"
  /\ UNCHANGED <<hrefs_in, symbol_slugs, slug_map, en_files, run, gonly, bvars, hvars, uvars, svars, pvars>>

InitLinks ==
  /\ hrefs \in SeqsUpTo(HrefChoices, MaxLinks)
  /\ hrefs_in = hrefs
  /\ symbol_slugs \in SymbolTables
  /\ l_pc = "call"
  /\ slug_map = InputSlugMap
  /\ en_files = <<>>
  /\ run = "running"
  /\ NoGenerate /\ NoBuild /\ NoHreflang /\ NoUpdate /\ NoSitemap /\ NoMain

NextLinks == UpdateInternalLinks

SpecLinks == InitLinks /\ [][NextLinks]_vars

\* ------------------------------------------- save_slug_map and load_slug_map
\* A dict is the sequence of its (key, value) pairs in insertion order; its
\* keys are distinct. data/blog-slugs.json is the payload json.dumps and
\* json.load carry, a dict of dicts with the order of its keys.
Pair(k, v) == [key |-> k, val |-> v]

DictKeys(d) == {d[i].key : i \in DOMAIN d}

\* d.get(k, default)
DictGet(d, k, default) ==
  IF k \in DictKeys(d) THEN d[CHOOSE i \in DOMAIN d : d[i].key = k].val ELSE default

\* The order of Python on the characters of the keys of this corpus ('index'
\* is one token, ordered by its first letter).
CharRank(c) ==
  CASE c = "-" -> 1 [] c = "2" -> 2 [] c = "a" -> 3 [] c = "b" -> 4 [] c = "c" -> 5
    [] c = "index" -> 6 [] OTHER -> 7

\* k1 < k2 as Python compares two strings
RECURSIVE KeyLess(_, _)
KeyLess(k1, k2) ==
  IF k2 = <<>> THEN FALSE
  ELSE IF k1 = <<>> THEN TRUE
  ELSE IF CharRank(Head(k1)) # CharRank(Head(k2)) THEN CharRank(Head(k1)) < CharRank(Head(k2))
  ELSE KeyLess(Tail(k1), Tail(k2))

\* A sort that leaves the items as they come.
Unsorted(d) == d

\* sorted(slug_map.items())
RECURSIVE SortedItems(_)
SortedItems(d) ==
  IF d = <<>> THEN <<>>
  ELSE LET least == CHOOSE i \in DOMAIN d : \A j \in DOMAIN d : j # i => KeyLess(d[i].key, d[j].key)
       IN  <<d[least]>> \o SortedItems(SubSeq(d, 1, least - 1) \o SubSeq(d, least + 1, Len(d)))

\* The payload save_slug_map writes for the slug map m.
save_slug_map(m) ==
  LET items == SortedItems(m)
  IN  << Pair("version", 1), Pair("defaultLang", "en"),
         Pair("articles", [i \in DOMAIN items |-> Pair(items[i].key, <<Pair("slugs", items[i].val)>>)]) >>

\* load_slug_map(): file is <<>> when data/blog-slugs.json does not exist,
\* <<payload>> when it does.
load_slug_map(file) ==
  IF file = <<>> THEN <<>>
  ELSE LET articles == DictGet(file[1], "articles", <<>>)
       IN  [i \in DOMAIN articles |-> Pair(articles[i].key, DictGet(articles[i].val, "slugs", <<>>))]

\* The slug maps save_slug_map is given here: up to three articles in any
\* insertion order, the slugs of each in any of these orders.
SlugDicts ==
  { <<>>,
    <<Pair("en", Chars("a")), Pair("fr", <<"a", "-", "2">>)>>,
    <<Pair("fr", <<"a", "-", "2">>), Pair("en", Chars("a"))>> }

PersistKeys == {Chars("a"), <<"a", "-", "2">>, IndexKey}

OrderedMaps ==
  {d \in UNION {[1..n -> [key : PersistKeys, val : SlugDicts]] : n \in 0..Cardinality(PersistKeys)} :
     \A i, j \in DOMAIN d : i # j => d[i].key # d[j].key}

\* save_slug_map(slug_map), on a slug map in memory
SaveSlugMap ==
  /\ m_pc \in {"save", "save again"}
  /\ persisted' = <<save_slug_map(omap)>>
  /\ saved1' = IF m_pc = "save" THEN persisted' ELSE saved1
  /\ m_pc' = IF m_pc = "save" THEN "load" ELSE "done"
  /\ UNCHANGED <<cmd, persisted_in, omap, omap_in, slug_map, en_files, run, gonly, bvars, hvars,
                 lvars, uvars, svars>>

\* slug_map = load_slug_map()
LoadSlugMap ==
  /\ m_pc = "load"
  /\ omap' = load_slug_map(persisted)
  /\ m_pc' = "save again"
  /\ UNCHANGED <<cmd, persisted, persisted_in, saved1, omap_in, slug_map, en_files, run, gonly,
                 bvars, hvars, lvars, uvars, svars>>

InitPersist ==
  /\ omap \in OrderedMaps
  /\ omap_in = omap
  /\ persisted \in {<<>>, <<save_slug_map(<<Pair(Chars("b"), <<>>)>>)>>}
  /\ persisted_in = persisted
  /\ saved1 = <<>>
  /\ m_pc = "save"
  /\ cmd = "none"
  /\ slug_map = <<>>
  /\ en_files = <<>>
  /\ run = "running"
  /\ NoGenerate /\ NoBuild /\ NoHreflang /\ NoLinks /\ NoUpdate /\ NoSitemap

NextPersist == SaveSlugMap \/ LoadSlugMap

SpecPersist == InitPersist /\ [][NextPersist]_vars

\* ----------------------------------------------------------------------- main
\* The commands of the script.
Commands == {"extract", "generate", "update-hreflang", "update-sitemap"}

\* The slugs dict of one article as build_slug_map filled it: en, then fr and
\* es, then de and it.
RECURSIVE SlugsInOrder(_, _)
SlugsInOrder(entry, ls) ==
  IF ls = <<>> THEN <<>>
  ELSE (IF Head(ls) \in DOMAIN entry THEN <<Pair(Head(ls), entry[Head(ls)])>> ELSE <<>>)
         \o SlugsInOrder(entry, Tail(ls))

\* The dict build_slug_map returned: the keys in the order of en_files.
BuiltDict(sm, files) == [i \in DOMAIN files |-> Pair(files[i], SlugsInOrder(sm[files[i]], LANGS))]

\* The slug map as the other definitions read it: key -> language -> slug.
Loaded(file) ==
  LET m == load_slug_map(file)
  IN  [k \in DictKeys(m) |-> [l \in DictKeys(DictGet(m, k, <<>>)) |-> DictGet(DictGet(m, k, <<>>), l, <<>>)]]

\* What data/blog-slugs.json may be when main starts: missing, a payload
\* with no article, the payload of a slug map.
PersistedChoices ==
  { <<>>,
    <<save_slug_map(<<>>)>>,
    <<save_slug_map(<<Pair(Chars("a"), <<Pair("en", Chars("a")), Pair("de", <<"a", "-", "d">>)>>),
                      Pair(IndexKey, <<Pair("en", <<>>)>>)>>)>> }

\* build_slug_map(translators) is called.
CallBuild ==
  /\ bs_pc' = "seed"
  /\ bs_key' = 1
  /\ bs_lang' = 1
  /\ slug_map' = <<>>
  /\ UNCHANGED <<used_slugs, docs>>

\* main, args.cmd == 'extract': build_slug_map is called.
MainExtract ==
  /\ m_pc = "start" /\ cmd = "extract"
  /\ CallBuild
  /\ m_pc' = "build"
  /\ UNCHANGED <<cmd, persisted, persisted_in, saved1, omap, omap_in, en_files, run, gonly,
                 hvars, lvars, uvars, svars>>

\* main, any other command: slug_map = load_slug_map(), and build_slug_map
\* is called if not slug_map.
MainLoad ==
  /\ m_pc = "start" /\ cmd # "extract"
  /\ IF Loaded(persisted) = <<>>
     THEN /\ CallBuild
          /\ m_pc' = "build"
     ELSE /\ slug_map' = Loaded(persisted)
          /\ m_pc' = "dispatch"
          /\ UNCHANGED bvars
  /\ UNCHANGED <<cmd, persisted, persisted_in, saved1, omap, omap_in, en_files, run, gonly,
                 hvars, lvars, uvars, svars>>

\* save_slug_map(slug_map) after build_slug_map returned (run is "done"
\* here when build_slug_map has returned); extract returns after it.
MainSave ==
  /\ m_pc = "build" /\ bs_pc = "done" /\ run = "done"
  /\ omap' = BuiltDict(slug_map, en_files)
  /\ persisted' = <<save_slug_map(omap')>>
  /\ saved1' = persisted'
  /\ m_pc' = IF cmd = "extract" THEN "done" ELSE "dispatch"
  /\ UNCHANGED <<cmd, persisted_in, omap_in, slug_map, en_files, run, gonly, bvars, hvars,
                 lvars, uvars, svars>>

\* The command itself (the loop over generate_article,
\* update_existing_hreflang or update_sitemap), none of which reads or writes
\* data/blog-slugs.json; main returns.
MainCommand ==
  /\ m_pc = "dispatch"
  /\ m_pc' = "done"
  /\ UNCHANGED <<cmd, persisted, persisted_in, saved1, omap, omap_in, slug_map, en_files, run,
                 gonly, bvars, hvars, lvars, uvars, svars>>

InitMain ==
  /\ cmd \in Commands
  /\ m_pc = "start"
  /\ persisted \in PersistedChoices
  /\ persisted_in = persisted
  /\ saved1 = <<>>
  /\ omap = <<>>
  /\ omap_in = <<>>
  /\ docs \in {[f \in {BuildFiles[k] : k \in DOMAIN BuildFiles} |-> d] : d \in DocChoices}
  /\ en_files = BuildFiles
  /\ slug_map = <<>>
  /\ run = "running"
  /\ bs_pc = "done"
  /\ bs_key = 0
  /\ bs_lang = 0
  /\ used_slugs = <<>>
  /\ NoGenerate /\ NoHreflang /\ NoLinks /\ NoUpdate /\ NoSitemap

NextMain ==
  \/ MainExtract
  \/ MainLoad
  \/ SeedEntry
  \/ BeginGenerate
  \/ RootEntry
  \/ \E translated_title \in TitleAnswers : GenerateSlug(translated_title)
  \/ TitleFails
  \/ ReturnSlugMap
  \/ MainSave
  \/ MainCommand

SpecMain == InitMain /\ [][NextMain]_vars

\* -------------------------------------------------------------- update_sitemap
\* docs/sitemap.xml is a sequence of tokens: runs of whitespace, <url> blocks,
\* the closing </urlset> and other text. Of a <url> block the model keeps its
\* <loc>, whether the <loc> is the first child of the block, and its
\* <xhtml:link> children.
MaxEntries == 3

Ws(c) == [t |-> "ws", c |-> c]

Text(c) == [t |-> "text", c |-> c]

UrlBlock(loc, locFirst, alts) == [t |-> "url", loc |-> loc, locFirst |-> locFirst, alts |-> alts]

CloseUrlset == Text("</urlset>")

\* A block that any blog URL makes a managed one.
MatchesAnyBlog(tok) ==
  /\ tok.t = "url" /\ tok.locFirst
  /\ tok.loc.domain /\ Len(tok.loc.path) >= 3 /\ tok.loc.path[2] = Chars("blog")

\* The block matches <url>\s*<loc>https://noctalia\.app/en/blog/.*?</url>
MatchesBlogBlock(tok) ==
  /\ tok.t = "url" /\ tok.locFirst
  /\ tok.loc.domain /\ Len(tok.loc.path) >= 3
  /\ tok.loc.path[1] = Chars("en") /\ tok.loc.path[2] = Chars("blog")

\* re.sub(r'<url>\s*<loc>https://noctalia\.app/en/blog/.*?</url>\s*', '', xml):
\* every matching block goes, with the whitespace that follows it.
RECURSIVE RemoveBlogBlocks(_)
RemoveBlogBlocks(x) ==
  IF x = <<>> THEN <<>>
  ELSE IF MatchesBlogBlock(Head(x))
       THEN RemoveBlogBlocks(LStrip(Tail(x), {Ws("\n"), Ws("  ")}))
       ELSE <<Head(x)>> \o RemoveBlogBlocks(Tail(x))

\* make_block(en_slug): the block, after the two spaces it starts with
make_block(key, sm) ==
  LET slug     == IF key = IndexKey THEN <<>> ELSE key
      main_url == build_blog_url("en", slug)
      ls       == <<"fr", "en", "es", "de", "it">>
  IN  UrlBlock(main_url, TRUE,
               [k \in 1..6 |->
                  IF k = 6 THEN [hreflang |-> "x-default", href |-> main_url]
                  ELSE [hreflang |-> ls[k],
                        href |-> build_blog_url(ls[k], IF key = IndexKey THEN <<>>
                                                       ELSE SlugGet(sm, key, ls[k], <<>>))]])

\* sorted(slug_map.keys())
RECURSIVE SortedKeys(_)
SortedKeys(S) ==
  IF S = {} THEN <<>>
  ELSE LET least == CHOOSE k \in S : \A k2 \in S : k2 # k => KeyLess(k, k2)
       IN  <<least>> \o SortedKeys(S \ {least})

\* '\n'.join(blocks)
RECURSIVE JoinBlocks(_, _)
JoinBlocks(keys, sm) ==
  IF keys = <<>> THEN <<>>
  ELSE <<Ws("  "), make_block(Head(keys), sm)>>
         \o (IF Tail(keys) = <<>> THEN <<>> ELSE <<Ws("\n")>> \o JoinBlocks(Tail(keys), sm))

\* xml.rfind('</urlset>'): the position of the last closing tag, 0 for -1
RFindClose(x) ==
  IF \E k \in DOMAIN x : x[k] = CloseUrlset
  THEN CHOOSE k \in DOMAIN x : x[k] = CloseUrlset /\ \A j \in (k + 1)..Len(x) : x[j] # CloseUrlset
  ELSE 0

\* update_sitemap(slug_map) on a sitemap that exists: what docs/sitemap.xml
\* holds when it returns.
update_sitemap(x, sm) ==
  LET cut        == RemoveBlogBlocks(x)
      insert_pos == RFindClose(cut)
  IN  IF insert_pos = 0 THEN x
      ELSE SubSeq(cut, 1, insert_pos - 1) \o <<Ws("\n")>> \o JoinBlocks(SortedKeys(DOMAIN sm), sm)
             \o <<Ws("\n")>> \o SubSeq(cut, insert_pos, Len(cut))

\* The entries the sitemaps of this corpus are made of: the home page, an
\* article of the slug map as an earlier run wrote it, an article that is no
\* longer in the slug map, a French article, and an English article whose
\* <loc> comes after another child.
EntryChoices ==
  { <<Ws("  "), UrlBlock(Url(TRUE, <<>>), TRUE, <<>>), Ws("\n")>>,
    <<Ws("  "), make_block(Chars("a"), <<>>), Ws("\n")>>,
    <<UrlBlock(build_blog_url("en", Chars("b")), TRUE, <<>>)>>,
    <<Ws("  "), UrlBlock(build_blog_url("fr", Chars("x")), TRUE, <<>>), Ws("\n")>>,
    <<Ws("  "), UrlBlock(build_blog_url("en", Chars("a")), FALSE, <<>>), Ws("\n")>> }

RECURSIVE Concat(_)
Concat(ss) == IF ss = <<>> THEN <<>> ELSE Head(ss) \o Concat(Tail(ss))

SitemapChoices ==
  {<<Text("<urlset>"), Ws("\n")>> \o Concat(entries) \o tail :
     entries \in SeqsUpTo(EntryChoices, MaxEntries),
     tail \in {<<CloseUrlset, Ws("\n")>>, <<CloseUrlset>>, <<>>}}

\* The command update-sitemap, run once more on what the run before left.
UpdateSitemap ==
  /\ s_runs < 2
  /\ xml' = update_sitemap(xml, slug_map)
  /\ xml1' = IF s_runs = 0 THEN xml' ELSE xml1
  /\ s_runs' = s_runs + 1
  /\ UNCHANGED <<xml_in, slug_map, en_files, run, gonly, bvars, hvars, lvars, uvars, pvars>>

InitSitemap ==
  /\ xml \in SitemapChoices
  /\ xml_in = xml
  /\ xml1 = <<>>
  /\ s_runs = 0
  /\ slug_map \in {InputSlugMap, <<>>}
  /\ en_files = <<>>
  /\ run = "running"
  /\ NoGenerate /\ NoBuild /\ NoHreflang /\ NoLinks /\ NoUpdate /\ NoMain

NextSitemap == UpdateSitemap

SpecSitemap == InitSitemap /\ [][NextSitemap]_vars

\* ---------------------------------------------------- update_existing_hreflang
\* A blog file is the language directory it is in, its name without '.html'
\* ('index' for index.html), and its parsed tree: the <link> elements of the
\* document, the label of the language button ("none": no button or no span in
\* it), the items of the language menu, the <a> elements of the navbar and
\* those of the footer. An href of the navbar or the footer is the sequence of
\* its parts between the slashes: '/en/#how-it-works' is <<"", "en",
\* "#how-it-works">>, '/en/blog/' is <<"", "en", "blog", "">>.
File(l, name, doc, button, menu, nav, footer) ==
  [lang |-> l, name |-> name, doc |-> doc, button |-> button, menu |-> menu,
   nav |-> nav, footer |-> footer]

Part(has, items) == [has |-> has, items |-> items]

NavLink(hreflang, href, text) == [hreflang |-> hreflang, href |-> href, text |-> text]

\* LANG_INFO[lang]['label'] and LANG_INFO[lang]['name']
Label(l) ==
  CASE l = "en" -> "EN" [] l = "fr" -> "FR" [] l = "es" -> "ES" [] l = "de" -> "DE" [] l = "it" -> "IT"

LangName(l) ==
  CASE l = "en" -> "English" [] l = "fr" -> "Francais" [] l = "es" -> "Espanol"
    [] l = "de" -> "Deutsch" [] l = "it" -> "Italiano"

\* i18n.get(lang, {}).get(key): "" when the table has no such entry
I18nGet(table, l, key) ==
  IF l \in DOMAIN table /\ key \in DOMAIN table[l] THEN table[l][key] ELSE ""

\* The key update_existing_hreflang resolves for a file: 'index' for
\* index.html, else the slug of the last <link rel="alternate" hreflang="en">
\* of the document, else the name of the file.
ResolveKey(f) ==
  IF f.name = IndexKey THEN IndexKey
  ELSE LET links  == f.doc.head \o f.doc.body
           ens    == {k \in DOMAIN links : links[k].rel = "alternate" /\ links[k].hreflang = "en"}
           en_href == IF ens = {} THEN EmptyUrl
                      ELSE links[CHOOSE k \in ens : \A j \in ens : j <= k].href
           slug   == extract_slug_from_url(en_href).slug
       IN  IF slug # <<>> THEN slug
           ELSE IF f.name # <<>> THEN f.name ELSE IndexKey

\* update_language_dropdown(soup, lang, slug_map, en_slug); the href of an
\* item, '../../<lang>/blog/<slug>', is its lang and its slug.
update_language_dropdown(f, sm, key) ==
  LET ls == <<"en", "fr", "es", "de", "it">>
  IN  [f EXCEPT
         !.button = IF f.button # "none" THEN Label(f.lang) ELSE "none",
         !.menu = IF ~f.menu.has THEN f.menu
                  ELSE Part(TRUE,
                         [k \in DOMAIN ls |->
                            [hreflang |-> ls[k],
                             href |-> [lang |-> ls[k],
                                       slug |-> IF key = IndexKey THEN <<>>
                                                ELSE SlugGet(sm, key, ls[k], <<>>)],
                             name |-> LangName(ls[k]),
                             hidden |-> ls[k] # f.lang]])]

\* href.endswith(...) for the anchors and pages the rewriters look for
EndsWith(href, ends) == href # <<>> /\ href[Len(href)] \in ends

\* '/blog/' in href
HasBlogPart(href) == \E k \in DOMAIN href : k > 1 /\ k < Len(href) /\ href[k] = "blog"

\* re.compile(r'^/en/') matches href
StartsEn(href) == Len(href) >= 3 /\ href[1] = "" /\ href[2] = "en"

\* The nav item loop of update_nav_links, on one <a>.
NavItem(link, l, table) ==
  LET anchored(anchor, label) ==
        [link EXCEPT
           !.href = IF I18nGet(table, l, anchor) # "" THEN <<"", l, I18nGet(table, l, anchor)>> ELSE @,
           !.text = IF I18nGet(table, l, label) # "" THEN I18nGet(table, l, label) ELSE @]
  IN  IF link.hreflang # "" THEN link
      ELSE IF EndsWith(link.href, {"#how-it-works", "#comment-ca-marche", "#como-funciona"})
           THEN anchored("nav_how_it_works_anchor", "nav_how_it_works")
      ELSE IF EndsWith(link.href, {"#features", "#fonctionnalites", "#caracteristicas"})
           THEN anchored("nav_features_anchor", "nav_features")
      ELSE IF HasBlogPart(link.href)
           THEN [link EXCEPT
                   !.href = <<"", l, "blog", "">>,
                   !.text = IF I18nGet(table, l, "nav_resources") # "" THEN I18nGet(table, l, "nav_resources") ELSE @]
      ELSE link

\* update_nav_links(soup, lang, i18n)
update_nav_links(f, table) ==
  IF ~f.nav.has THEN f
  ELSE
    LET items   == f.nav.items
        brands  == {k \in DOMAIN items : StartsEn(items[k].href)}
        branded == IF brands = {} THEN items
                   ELSE [items EXCEPT ![CHOOSE k \in brands : \A j \in brands : k <= j].href = <<"", f.lang, "">>]
    IN  [f EXCEPT !.nav = Part(TRUE, [k \in DOMAIN branded |-> NavItem(branded[k], f.lang, table)])]

\* The loop of update_footer_links, on the href of one <a>: every test reads
\* the href the link had, the last assignment stays.
FooterHref(href, l, table) ==
  LET h1 == IF EndsWith(href, {"blog"}) \/ (Len(href) >= 2 /\ href[Len(href)] = "" /\ href[Len(href) - 1] = "blog")
            THEN <<"", l, "blog", "">> ELSE href
      h2 == IF EndsWith(href, {"legal-notice", "mentions-legales", "aviso-legal"}) /\ I18nGet(table, l, "legal_slug") # ""
            THEN <<"..", I18nGet(table, l, "legal_slug")>> ELSE h1
      h3 == IF EndsWith(href, {"privacy-policy", "politique-confidentialite", "politica-privacidad"}) /\ I18nGet(table, l, "privacy_slug") # ""
            THEN <<"..", I18nGet(table, l, "privacy_slug")>> ELSE h2
      h4 == IF EndsWith(href, {"terms", "cgu", "terminos"}) /\ I18nGet(table, l, "terms_slug") # ""
            THEN <<"..", I18nGet(table, l, "terms_slug")>> ELSE h3
  IN  IF Len(href) >= 2 /\ EndsWith(href, {"about", "a-propos", "sobre"}) /\ I18nGet(table, l, "about_slug") # ""
      THEN <<"", l, I18nGet(table, l, "about_slug")>> ELSE h4

\* update_footer_links(soup, lang, i18n)
update_footer_links(f, table) ==
  IF ~f.footer.has THEN f
  ELSE [f EXCEPT !.footer = Part(TRUE, [k \in DOMAIN f.footer.items |-> FooterHref(f.footer.items[k], f.lang, table)])]

\* The body of the loops of update_existing_hreflang, on one file: what
\* write_file(file_path, str(soup)) leaves on disk, as a tree.
UpdateOneFile(f, sm, table) ==
  LET key == ResolveKey(f)
      f1  == [f EXCEPT !.doc = update_hreflang_links(f.doc, sm, key)]
      f2  == update_language_dropdown(f1, sm, key)
      f3  == update_nav_links(f2, table)
  IN  update_footer_links(f3, table)

\* docs/data/symbol-i18n.json: missing, or with the entries of German.
I18nChoices ==
  { <<>>,
    [de |-> [nav_how_it_works_anchor |-> "#so-funktionierts", nav_how_it_works |-> "So funktioniert's",
             nav_resources |-> "Ressourcen", legal_slug |-> "impressum", about_slug |-> "ueber-uns"]] }

\* The documents of the files: a head with the alternate of an article of the
\* slug map, a head whose English alternate names an article the slug map
\* does not hold, a head with no alternate, a document with no head, and a
\* head whose English alternate is followed by another one in the body.
UpdateDocChoices ==
  { Document(TRUE, <<Link("canonical", "", build_blog_url("de", Chars("a"))),
                     Link("alternate", "en", build_blog_url("en", Chars("a"))),
                     Link("alternate", "de", build_blog_url("de", <<"a", "-", "d">>))>>, <<>>),
    Document(TRUE, <<Link("alternate", "en", build_blog_url("en", Chars("b")))>>, <<>>),
    Document(TRUE, <<Link("stylesheet", "", EmptyUrl)>>, <<>>),
    Document(FALSE, <<>>, <<Link("alternate", "en", build_blog_url("en", Chars("a")))>>),
    Document(TRUE, <<Link("alternate", "en", build_blog_url("en", Chars("a")))>>,
                   <<Link("alternate", "en", build_blog_url("en", Chars("b")))>>) }

NavChoices ==
  { Part(FALSE, <<>>),
    Part(TRUE, <<NavLink("", <<"", "en", "">>, "Noctalia"),
                 NavLink("", <<"", "en", "#how-it-works">>, "How it works"),
                 NavLink("", <<"", "en", "blog", "">>, "Resources")>>),
    Part(TRUE, <<NavLink("", <<"", "en", "">>, "Noctalia"),
                 NavLink("", <<"", "en", "#features">>, "Features"),
                 NavLink("en", <<"..", "..", "en", "blog", "">>, "English")>>) }

FooterChoices ==
  { Part(FALSE, <<>>),
    Part(TRUE, <<(<<"", "en", "blog", "">>), (<<"..", "legal-notice">>), (<<"", "en", "about">>),
                 (<<"..", "terms">>)>>) }

FileChoices ==
  { File(l, name, doc, chrome[1], chrome[2], nav, footer) :
      l \in {"en", "de"}, name \in {IndexKey, Chars("a"), <<"a", "-", "d">>, Chars("b")},
      doc \in UpdateDocChoices,
      chrome \in {<<"none", Part(FALSE, <<>>)>>, <<"EN", Part(TRUE, <<>>)>>},
      nav \in NavChoices, footer \in FooterChoices }

\* list_blog_files(lang) over the languages: one file, or the English root
\* and another file after it.
CorpusChoices ==
  {<<f>> : f \in FileChoices}
  \cup
  {<<File("en", IndexKey, Document(TRUE, <<>>, <<>>), "none", Part(FALSE, <<>>), Part(FALSE, <<>>), Part(FALSE, <<>>)), f>> :
     f \in {g \in FileChoices : g.lang = "de" /\ ~g.nav.has /\ ~g.footer.has}}

\* One turn of the loops of update_existing_hreflang: the file is read,
\* updated and written.
UpdateFile ==
  /\ u_pass \in {1, 2}
  /\ u_file <= Len(corpus)
  /\ corpus' = [corpus EXCEPT ![u_file] = UpdateOneFile(corpus[u_file], slug_map, i18n)]
  /\ u_file' = u_file + 1
  /\ UNCHANGED <<corpus1, u_pass, i18n, slug_map, en_files, run, gonly, bvars, hvars, lvars, svars, pvars>>

\* update_existing_hreflang returns; the command is run once more on the
\* files it left.
EndUpdate ==
  /\ u_pass \in {1, 2}
  /\ u_file > Len(corpus)
  /\ corpus1' = IF u_pass = 1 THEN corpus ELSE corpus1
  /\ u_pass' = u_pass + 1
  /\ u_file' = 1
  /\ UNCHANGED <<corpus, i18n, slug_map, en_files, run, gonly, bvars, hvars, lvars, svars, pvars>>

InitUpdate ==
  /\ corpus \in CorpusChoices
  /\ corpus1 = <<>>
  /\ u_pass = 1
  /\ u_file = 1
  /\ i18n \in I18nChoices
  /\ slug_map = InputSlugMap
  /\ en_files = <<>>
  /\ run = "running"
  /\ NoGenerate /\ NoBuild /\ NoHreflang /\ NoLinks /\ NoSitemap /\ NoMain

NextUpdate == UpdateFile \/ EndUpdate

SpecUpdate == InitUpdate /\ [][NextUpdate]_vars

\* ===================================================================== claims
\* ------------------------------------------------------- the `generate` run

\* The text segments one invocation of translator.translate carries: the
\* text itself, or the core of every marker of a batch.
Carried(k) ==
  IF HasMarkup(calls[k].text)
  THEN {Unescape(ParseSpans(calls[k].text)[j].text) : j \in DOMAIN ParseSpans(calls[k].text)}
  ELSE {calls[k].text}

\* C1: within one run no text segment (head string, attribute value or core
\* of a text leaf) is carried by more than one invocation of the translator.
\* Stated for the invocations the translator answered, which leaves the
\* retries of a failed invocation aside.
C1_OneRequestPerText ==
  \A j, k \in DOMAIN calls :
    (j < k /\ calls[j].ok /\ calls[k].ok) => Carried(j) \cap Carried(k) = {}

Invocations(t) == {k \in DOMAIN calls : calls[k].text = t}

FailedInvocations(t) == {k \in Invocations(t) : ~calls[k].ok}

\* C2: translate_text on a text that is neither cached nor blank invokes the
\* translator at most 3 times; the first answer is stored in the cache and no
\* attempt follows it; after 3 failures the failure is raised (the run ends
\* in error) and the cache holds no entry for the text.
C2_BoundedRetry ==
  /\ \A k \in DOMAIN calls :
       LET t == calls[k].text
       IN  /\ ~IsBlank(t)
           /\ Cardinality(Invocations(t)) <= 3
           /\ calls[k].ok => /\ \A j \in Invocations(t) : j <= k
                             /\ t \in DOMAIN cache
                             /\ cache[t] = calls[k].result
           /\ Cardinality(FailedInvocations(t)) = 3 => run = "error" /\ t \notin DOMAIN cache
  /\ run = "error" =>
       /\ Len(calls) >= 3
       /\ Cardinality(FailedInvocations(calls[Len(calls)].text)) = 3
       /\ call.from = "none"

\* C2's case: a translate_text call answered at its third attempt.
C2_Witness ==
  \E k \in DOMAIN calls :
    /\ k >= 3 /\ calls[k].ok /\ ~calls[k - 1].ok /\ ~calls[k - 2].ok
    /\ calls[k - 1].text = calls[k].text /\ calls[k - 2].text = calls[k].text
    /\ cache[calls[k].text] = calls[k].result

\* C3: when a fatal error ends the run, no output file of the run is on disk.
C3_NoOutputOnError == run = "error" => DOMAIN disk = {}

\* A text leaf's request was sent: its marker was issued and the batch request
\* of that marker was built.
Sent(leaf) == leaf.b > 0 /\ leaf.b <= Len(flushes)

\* C5: a text leaf with an excluded element among its ancestors (its parent
\* or further up) keeps its content and is never sent to the translator.
C5_ExcludedUntouched ==
  \A k \in DOMAIN leaves :
    leaves[k].kind \in {"skip", "nested"} => leaves[k].text = leaves[k].orig /\ ~Sent(leaves[k])

\* What the answer resp holds for marker i: the text between the first opening
\* tag with that index and the closing tag that follows it (no element when
\* the answer lost the marker).
ContentOf(resp, i) ==
  {Unescape(SubSeq(resp, pq[1] + 1, pq[2] - 1)) :
     pq \in {x \in (DOMAIN resp) \X (DOMAIN resp) :
               /\ x[1] < x[2]
               /\ resp[x[1]].c = "<span>" /\ resp[x[1]].n = i
               /\ \A j \in 1..(x[1] - 1) : ~(resp[j].c = "<span>" /\ resp[j].n = i)
               /\ resp[x[2]].c = "</span>"
               /\ \A j \in (x[1] + 1)..(x[2] - 1) : resp[j].c # "</span>"}}

\* Every translation the run obtained for the text c: the answers to c itself,
\* the content of the markers that carried c and, for a marker of c the answer
\* lost, c itself (lossy) or nothing (not lossy).
TranslationsOf(c, lossy) ==
  {calls[k].result : k \in {j \in DOMAIN calls : calls[j].ok /\ calls[j].text = c}}
  \cup UNION { LET got == ContentOf(flushes[f].resp, ParseSpans(flushes[f].html)[j].i)
               IN  IF got = {} /\ lossy THEN {c} ELSE got :
               <<f, j>> \in {x \in (DOMAIN flushes) \X (0..(MaxLongLeaves + MaxSegments + 2)) :
                              /\ flushes[x[1]].done
                              /\ x[2] \in DOMAIN ParseSpans(flushes[x[1]].html)
                              /\ Unescape(ParseSpans(flushes[x[1]].html)[x[2]].text) = c} }

\* The translated content a finished region may hold for leaf k: with a marker,
\* what the answer to its batch holds for its index (its own core when the
\* answer lost the marker and fallback is allowed); without one, a translation
\* of its core obtained earlier.
AllowedContent(k, core, fallback) ==
  IF leaves[k].b > 0
  THEN LET got == ContentOf(flushes[leaves[k].b].resp, leaves[k].i)
       IN  IF got = {} /\ fallback THEN {core} ELSE got
  ELSE TranslationsOf(core, TRUE)

\* Leaf k is leading whitespace + T + trailing whitespace, the whitespace that
\* of the original leaf and T an allowed content.
Reassembled(k, fallback) ==
  LET o == leaves[k].orig
  IN  \E a \in 0..Len(o), z \in 0..Len(o) :
        /\ a < z
        /\ \A i \in 1..a : IsSpace(o[i])
        /\ \A i \in (z + 1)..Len(o) : IsSpace(o[i])
        /\ ~IsSpace(o[a + 1]) /\ ~IsSpace(o[z])
        /\ \E tr \in AllowedContent(k, SubSeq(o, a + 1, z), fallback) :
             leaves[k].text = SubSeq(o, 1, a) \o tr \o SubSeq(o, z + 1, Len(o))

RECURSIVE SumWrappers(_)
SumWrappers(items) ==
  IF items = <<>> THEN 0
  ELSE StrLen(Wrapper(Head(items).i, Head(items).core)) + SumWrappers(Tail(items))

\* The markers issued in the region, as batch items, in document order.
RECURSIVE IssuedFrom(_)
IssuedFrom(k) ==
  IF k > Len(leaves) THEN <<>>
  ELSE (IF leaves[k].b > 0
        THEN <<[i |-> leaves[k].i, core |-> SplitText(leaves[k].orig).core]>>
        ELSE <<>>) \o IssuedFrom(k + 1)

RegionRequests == {leaves[k].b : k \in {j \in DOMAIN leaves : leaves[j].b > 0}}

BatchesWithinBudget ==
  \A f \in DOMAIN flushes :
    Len(ParseSpans(flushes[f].html)) > 1 => StrLen(flushes[f].html) <= 2500

\* C7 as stated: a batch request of more than one marker is at most 2500
\* characters long, batch_len is the summed length of the pending markers, and
\* a finished region whose markers total more than 2500 went in 2 requests or more.
C7_BatchBudget ==
  /\ BatchesWithinBudget
  /\ batch_len = SumWrappers(pending)
  /\ (pc = "attrs" /\ SumWrappers(IssuedFrom(1)) > 2500) => Cardinality(RegionRequests) >= 2

\* C7 as amended: batch_len is never less than the summed length of the
\* pending markers and at most 2 more, and the region needs two markers or
\* more to be split.
C7_BatchBudgetAmended ==
  /\ BatchesWithinBudget
  /\ SumWrappers(pending) <= batch_len /\ batch_len <= SumWrappers(pending) + 2
  /\ (pc = "attrs" /\ Len(IssuedFrom(1)) >= 2 /\ SumWrappers(IssuedFrom(1)) > 2500)
       => Cardinality(RegionRequests) >= 2

\* C7's case: a batch was flushed because the next marker did not fit, and
\* the marker that opened the new batch was measured with its two-digit index.
C7_Witness ==
  /\ pc = "scan" /\ Len(flushes) >= 1 /\ Len(pending) = 1
  /\ Len(ParseSpans(flushes[Len(flushes)].html)) > 1
  /\ batch_len > SumWrappers(pending)

\* C10: a missing slug or cross-reference entry ends the run in error.
C10_MissingMappingAborts == missing_met => run = "error"

\* --------------------------------------------------------- build_slug_map
\* build_slug_map has returned its slug map.
Returned == bs_pc = "done" /\ run = "done" /\ docs # <<>>

\* Two distinct articles (the root left out) with one slug in language l.
Collide(l) ==
  \E k1, k2 \in (DOMAIN slug_map) \ {IndexKey} :
    /\ k1 # k2
    /\ l \in DOMAIN slug_map[k1] /\ l \in DOMAIN slug_map[k2]
    /\ slug_map[k1][l] = slug_map[k2][l]

\* C4: in the slug map build_slug_map returns, no two distinct non-root
\* articles have the same slug in a language, for each of en, fr, es, de, it,
\* whatever the alternate links of the documents and the translated titles.
C4_SlugsUniquePerLanguage == Returned => \A l \in LangSet : ~Collide(l)

\* C9: in the slug map build_slug_map returns, the entry of the root key
\* 'index' has the empty slug in en, fr, es, de and it, whatever alternate
\* links index.html carries.
C9_RootSlugEmpty ==
  Returned =>
    /\ IndexKey \in DOMAIN slug_map
    /\ \A l \in LangSet : SlugGet(slug_map, IndexKey, l, <<>>) = <<>>

\* --------------------------------------------------- update_hreflang_links
\* The <link rel="alternate"> elements of a sequence of elements.
IsAlternate(e) == e.rel = "alternate"

AlternatesOf(elements) == SelectSeq(elements, IsAlternate)

\* The English URL of the article: the root URL for the root, else the URL
\* of the article's English slug (the key itself when the map lacks it).
EnglishUrl ==
  build_blog_url("en", IF en_slug = IndexKey THEN <<>> ELSE SlugGet(slug_map, en_slug, "en", en_slug))

\* alts holds one entry for each of en, fr, es, de, it and one x-default
\* entry whose href is the English URL, and nothing else.
ExactlyTheSix(alts) ==
  /\ Len(alts) = Len(order)
  /\ \A l \in LangSet \cup {"x-default"} :
       Cardinality({k \in DOMAIN alts : alts[k].hreflang = l}) = 1
  /\ \A k \in DOMAIN alts : alts[k].hreflang = "x-default" => alts[k].href = EnglishUrl

\* C8 (as stated): after update_hreflang_links the alternate links of the
\* document are exactly one for each of en, fr, es, de, it and one x-default,
\* which points at the English URL of the article, whatever it held before.
C8_ExactlySixAlternates ==
  h_pc = "done" /\ soup_in # <<>> => ExactlyTheSix(AlternatesOf(soup.head \o soup.body))

\* C8 (amended): after update_hreflang_links on a document that has a head,
\* the alternate links of the head are exactly one for each of en, fr, es,
\* de, it and one x-default, which points at the English URL of the article,
\* whatever the head held before, and the rest of the head and everything
\* outside the head are as they were; a document with no head is unchanged.
C8_SixAlternatesInHead ==
  h_pc = "done" /\ soup_in # <<>> =>
    IF soup_in.hasHead
    THEN /\ ExactlyTheSix(AlternatesOf(soup.head))
         /\ SelectSeq(soup.head, NotAlternate) = SelectSeq(soup_in.head, NotAlternate)
         /\ soup.body = soup_in.body /\ soup.hasHead
    ELSE soup = soup_in

\* update_hreflang_links ran on a head that held alternate links of its own,
\* one of them for a language the site does not have, next to a canonical link.
C8_Witness ==
  /\ h_pc = "done" /\ soup_in # <<>> /\ soup_in.hasHead
  /\ \E k \in DOMAIN soup_in.head : soup_in.head[k].rel = "alternate" /\ soup_in.head[k].hreflang = "pt"
  /\ \E k \in DOMAIN soup_in.head : soup_in.head[k].rel = "canonical"
  /\ soup_in.body # <<>>
  /\ en_slug = Chars("a")


\* ------------------------------------------------ generate_article: write_file
\* The files of the run that hold the article generate_article is working on.
FilesOf(d, key) == {f \in DOMAIN d : d[f].key = key}

\* A file the step writes: created, or given another content.
Written(f) == f \in DOMAIN disk' /\ (f \in DOMAIN disk => disk'[f] # disk[f])

\* C14: generate_article writes the output file of an article only when every
\* step of its pipeline (head, body, link rewriters) is done and none raised:
\* a step that writes a file is the end of the pipeline of the article at
\* hand, and when a step raised no file of that article is on disk.
C14_WriteAfterPipeline ==
  /\ [][\A f \in DOMAIN disk' :
          Written(f) => /\ pc = "finish" /\ Idle /\ run' # "error"
                        /\ disk'[f].key = en_files[ai]
                        /\ disk'[f].texts = out]_vars
  /\ [](run = "error" => FilesOf(disk, en_files[ai]) = {})

\* C14's case: the translator gave up in the body of the second article,
\* after the first article was written.
C14_Witness ==
  /\ run = "error" /\ pc = "scan" /\ ai = 2
  /\ FilesOf(disk, en_files[1]) # {}
  /\ FilesOf(disk, en_files[2]) = {}

\* ------------------------------------------------------- recurring segments
\* C16: in a generate run two text leaves with the same core get the same
\* translated text, in one batch or in several (here: two leaves of a
\* finished region with the same source text have the same text).
C16_RecurringSegmentsSame ==
  pc = "attrs" =>
    \A j, k \in DOMAIN leaves :
      (/\ leaves[j].kind = "text" /\ leaves[k].kind = "text"
       /\ leaves[j].orig = leaves[k].orig) => leaves[j].text = leaves[k].text

\* ----------------------------------------------------------- a lost marker
\* The cores batch request f carried, in the order of its markers.
CoresOf(f) == [j \in DOMAIN ParseSpans(flushes[f].html) |-> Unescape(ParseSpans(flushes[f].html)[j].text)]

\* The answer to batch request f does not hold the marker of its j-th item.
Lost(f, j) ==
  /\ flushes[f].done
  /\ ContentOf(flushes[f].resp, ParseSpans(flushes[f].html)[j].i) = {}

\* The lost markers of the run so far: <<request, position in the request>>.
LostMarkers ==
  {fj \in (DOMAIN flushes) \X (1..(MaxLongLeaves + MaxSegments + 2)) :
     fj[2] \in DOMAIN CoresOf(fj[1]) /\ Lost(fj[1], fj[2])}

\* Another marker of the same core was pending when request f was flushed: a
\* later item of the same batch, or the node that did not fit and opened the
\* next batch.
AlsoPending(f, j) ==
  \/ \E j2 \in DOMAIN CoresOf(f) : j2 > j /\ CoresOf(f)[j2] = CoresOf(f)[j]
  \/ f + 1 \in DOMAIN flushes /\ CoresOf(f + 1)[1] = CoresOf(f)[j]

\* The cache holds c as its own translation, no later request carries c, and
\* the leaves of the region that took c from the cache read as they did.
KeptFromCache(f, c) ==
  /\ c \in DOMAIN cache /\ cache[c] = c
  /\ \A g \in DOMAIN flushes : g > f => \A j \in DOMAIN CoresOf(g) : CoresOf(g)[j] # c
  /\ \A k \in DOMAIN leaves :
       (leaves[k].kind = "text" /\ leaves[k].b = 0 /\ SplitText(leaves[k].orig).core = c)
         => leaves[k].text = leaves[k].orig

\* The leaves of the region whose marker was lost read as they did.
LostLeavesKept ==
  \A k \in DOMAIN leaves :
    (Sent(leaves[k]) /\ flushes[leaves[k].b].done
     /\ ContentOf(flushes[leaves[k].b].resp, leaves[k].i) = {}) => leaves[k].text = leaves[k].orig

HasSymbolEntry(href) ==
  /\ Len(href) = 3 /\ href[1] = Seg("..") /\ href[2] = Seg("symbols")
  /\ href[3] \in DOMAIN symbol_slugs /\ lang \in DOMAIN symbol_slugs[href[3]]

\* The href starts with http://, https://, mailto: or #.
IsExternal(href) ==
  /\ href # <<>>
  /\ \/ href[1] \in {Seg("http:"), Seg("https:"), Seg("mailto:")}
     \/ (href[1] # <<>> /\ href[1][1] = "#")

\* C18: update_internal_links turns every link '../symbols/X' whose X has an
\* entry for the language in the cross-reference table into
\* '../<symbols_dir of the language>/<that entry>' and nothing else, and
\* leaves links that start with http://, https://, mailto: or # as they were.
C18_SymbolLinksRewritten ==
  l_pc = "done" /\ hrefs_in # <<>> =>
    \A k \in DOMAIN hrefs_in :
      /\ HasSymbolEntry(hrefs_in[k]) =>
           hrefs[k] = <<Seg(".."), SymbolsDir(lang), symbol_slugs[hrefs_in[k][3]][lang]>>
      /\ IsExternal(hrefs_in[k]) => hrefs[k] = hrefs_in[k]

\* C18's case: a document with a symbol link the table has an entry for, whose
\* entry is also an article key of the slug map, next to an external link.
C18_Witness ==
  /\ l_pc = "done"
  /\ \E k \in DOMAIN hrefs_in :
       /\ HasSymbolEntry(hrefs_in[k])
       /\ symbol_slugs[hrefs_in[k][3]][lang] \in DOMAIN slug_map
       /\ hrefs[k] # hrefs_in[k]
  /\ \E k \in DOMAIN hrefs_in : IsExternal(hrefs_in[k])

\* ------------------------------------------- save_slug_map and load_slug_map
\* A dict as Python compares dicts: by its keys and their values, whatever
\* the order; a slug map is a dict of dicts.
AsDict(d) == [k \in DictKeys(d) |-> DictGet(d, k, <<>>)]

AsSlugMap(m) == [k \in DictKeys(m) |-> AsDict(DictGet(m, k, <<>>))]

\* The article keys of a payload, in the order of the file.
ArticleKeys(payload) ==
  [i \in DOMAIN DictGet(payload, "articles", <<>>) |-> DictGet(payload, "articles", <<>>)[i].key]

\* C17: load_slug_map after save_slug_map(m) returns m, saving the loaded map
\* again writes the payload the first save wrote, and the article keys of
\* the payload are in sorted order, whatever the insertion order of m.
C17_SaveLoadRoundTrip ==
  /\ (m_pc \in {"save again", "done"} /\ cmd = "none") => AsSlugMap(omap) = AsSlugMap(omap_in)
  /\ (m_pc = "done" /\ cmd = "none") => persisted = saved1
  /\ (m_pc \in {"load", "save again", "done"} /\ cmd = "none") =>
       \A i, j \in DOMAIN ArticleKeys(persisted[1]) :
         i < j => KeyLess(ArticleKeys(persisted[1])[i], ArticleKeys(persisted[1])[j])

\* C17's case: a slug map of three articles inserted out of order, with the
\* slugs of two of them in different orders, saved, loaded and saved again.
C17_Witness ==
  /\ m_pc = "done" /\ cmd = "none" /\ Len(omap_in) = 3
  /\ KeyLess(omap_in[2].key, omap_in[1].key)
  /\ omap_in[1].val # <<>> /\ omap_in[1].val # omap_in[2].val /\ AsDict(omap_in[1].val) = AsDict(omap_in[2].val)
  /\ omap # omap_in

\* ----------------------------------------------------- the slug-map file
\* C15: generate, update-hreflang and update-sitemap never create or modify
\* data/blog-slugs.json and never call the translator to derive slugs,
\* whatever the file held when they started (missing or without articles
\* included).
C15_OnlyExtractWrites ==
  cmd \in {"generate", "update-hreflang", "update-sitemap"} =>
    /\ persisted = persisted_in
    /\ \A l \in DOMAIN used_slugs : used_slugs[l] = {}

\* -------------------------------------------------------------- update_sitemap
\* C12: update_sitemap applied to the sitemap a previous update_sitemap run
\* produced, with the same slug map, yields the identical text.
C12_SitemapIdempotent == s_runs = 2 => xml = xml1

\* The <url> blocks of a sitemap, in order.
IsBlock(tok) == tok.t = "url"

\* The block's <loc> is an English blog URL.
IsEnglishBlog(tok) ==
  /\ tok.t = "url" /\ tok.loc.domain /\ Len(tok.loc.path) >= 3
  /\ tok.loc.path[1] = Chars("en") /\ tok.loc.path[2] = Chars("blog")

IsUnmanaged(tok) == tok.t = "url" /\ ~IsEnglishBlog(tok)

\* The managed blocks of the slug map, in sorted key order.
ManagedBlocks == [i \in DOMAIN SortedKeys(DOMAIN slug_map) |-> make_block(SortedKeys(DOMAIN slug_map)[i], slug_map)]

\* C13 (as stated): after update_sitemap the sitemap holds exactly one managed
\* blog entry per key of the slug map, in sorted key order, none left over and
\* none twice, and every entry whose <loc> is not an English blog URL is
\* still there, unchanged and in its order.
C13_ManagedRegenerated ==
  s_runs >= 1 =>
    /\ SelectSeq(xml, IsEnglishBlog) = ManagedBlocks
    /\ SelectSeq(xml, IsUnmanaged) = SelectSeq(xml_in, IsUnmanaged)

\* The block is an English blog entry with its <loc> first: one the pass manages.
IsManaged(tok) == IsEnglishBlog(tok) /\ tok.locFirst

IsOther(tok) == tok.t = "url" /\ ~IsManaged(tok)

\* C13 (amended): after update_sitemap on a sitemap with a closing </urlset>,
\* the blocks whose first child is the <loc> of an English blog URL are
\* exactly one per key of the slug map, in sorted key order, and every other
\* block is still there, unchanged and in its order; a sitemap with no
\* closing </urlset> is left as it was.
C13_ManagedRegeneratedBeforeClose ==
  s_runs >= 1 =>
    IF \E k \in DOMAIN xml_in : xml_in[k] = CloseUrlset
    THEN /\ SelectSeq(xml, IsManaged) = ManagedBlocks
         /\ SelectSeq(xml, IsOther) = SelectSeq(xml_in, IsOther)
    ELSE xml = xml_in

\* C13's case: a sitemap that held an entry of an article of the slug map, an
\* entry of an article that left it and an entry of another part of the site,
\* after the pass.
C13_Witness ==
  /\ s_runs = 1 /\ slug_map # <<>>
  /\ \E k \in DOMAIN xml_in : xml_in[k] = CloseUrlset
  /\ \E k \in DOMAIN xml_in : IsManaged(xml_in[k]) /\ xml_in[k].loc = build_blog_url("en", Chars("a"))
  /\ \E k \in DOMAIN xml_in : IsManaged(xml_in[k]) /\ xml_in[k].loc = build_blog_url("en", Chars("b"))
  /\ \E k \in DOMAIN xml_in : IsUnmanaged(xml_in[k])

\* ---------------------------------------------------- update_existing_hreflang
\* C11: a second run of update_existing_hreflang, with the same slug map,
\* leaves every file as the first run left it, whatever the files held at
\* the start (no 'en' alternate link included).
C11_UpdateHreflangIdempotent == u_pass = 3 => corpus = corpus1
====
